---------------------------- MODULE Spec2Model ----------------------------
(***************************************************************************)
(* Twitch-Sound-Alert: the connection lifecycle and message-dispatch       *)
(* engine of the two chat clients of the repository,                       *)
(*   TwitchBot      (src/twitch_sound_alert.py)  with its AudioPlayer, and *)
(*   TwitchListener (src/release/twitch_listener.py),                      *)
(* as state machines.  A string is a sequence of symbols: one symbol per   *)
(* byte or character, with the protocol keywords PING, PONG and PRIVMSG    *)
(* taken as single symbols.                                                *)
(***************************************************************************)
EXTENDS Integers, Sequences, FiniteSets, TLC

(***************************************************************************)
(* Bounds of the model.                                                    *)
(***************************************************************************)
\* sockets a TwitchBot may create (connect attempts)
MaxSockets == 3
\* sockets a TwitchListener may create (connect attempts): after three failures
\* the fourth sleeps longer than the join of stop() waits
MaxConnects == 4
\* chunks the server delivers to one client instance
MaxRecv == 2
\* length of the byte stream fed to the line framers
MaxStream == 4
\* length of a chat text given to the trigger scan
MaxText == 3
\* entries of a trigger table given to the trigger scan
MaxTable == 2
\* pieces a chat text given to the chat-line pattern is made of
MaxPieces == 3
\* run threads of replaced bots that are followed
MaxOrphans == 2

(***************************************************************************)
(* Strings.                                                                *)
(***************************************************************************)
CRLF == <<"\r", "\n">>

Min(a, b) == IF a <= b THEN a ELSE b

\* s[from..] (1-based), the empty string when from > Len(s)
Drop(s, n) == SubSeq(s, n + 1, Len(s))
Take(s, n) == SubSeq(s, 1, n)

\* positions i at which pattern p occurs in s (p starts at s[i])
Occurrences(p, s) ==
    {i \in 1..(Len(s) - Len(p) + 1) : SubSeq(s, i, i + Len(p) - 1) = p}

\* Python's `p in s`
Contains(p, s) == Len(p) = 0 \/ Occurrences(p, s) # {}

\* position of the first occurrence of p in s; 0 when there is none
Find(p, s) ==
    IF Occurrences(p, s) = {} THEN 0
    ELSE CHOOSE i \in Occurrences(p, s) : \A j \in Occurrences(p, s) : i <= j

\* s.split(p, 1) for a non-empty separator p that occurs in s
SplitOnce(p, s) ==
    <<Take(s, Find(p, s) - 1), Drop(s, Find(p, s) + Len(p) - 1)>>

\* s.split(p) for a non-empty separator p: every piece, empty ones included
RECURSIVE Split(_, _)
Split(p, s) ==
    IF Find(p, s) = 0 THEN <<s>>
    ELSE <<SplitOnce(p, s)[1]>> \o Split(p, SplitOnce(p, s)[2])

\* bytes.decode("utf-8", errors="ignore"): a lead byte ("xC3") followed by its
\* continuation byte ("xA9") is one character ("e'"); a lead byte without
\* continuation and a continuation byte without lead are malformed and dropped.
RECURSIVE Decode(_)
Decode(bytes) ==
    IF bytes = <<>> THEN <<>>
    ELSE IF bytes[1] = "xC3"
         THEN IF Len(bytes) >= 2 /\ bytes[2] = "xA9"
              THEN <<"e'">> \o Decode(Drop(bytes, 2))
              ELSE Decode(Drop(bytes, 1))
    ELSE IF bytes[1] = "xA9" THEN Decode(Drop(bytes, 1))
    ELSE <<bytes[1]>> \o Decode(Drop(bytes, 1))

\* str.lower() on one symbol
LowerChar(c) ==
    CASE c = "A" -> "a"
      [] c = "B" -> "b"
      [] c = "PING" -> "ping"
      [] c = "PONG" -> "pong"
      [] c = "PRIVMSG" -> "privmsg"
      [] OTHER -> c

Lower(s) == [i \in 1..Len(s) |-> LowerChar(s[i])]

IsSpace(c) == c \in {" ", "\r", "\n"}

\* str.strip(): leading and trailing whitespace removed
RECURSIVE LStrip(_)
LStrip(s) == IF s # <<>> /\ IsSpace(s[1]) THEN LStrip(Drop(s, 1)) ELSE s
RECURSIVE RStrip(_)
RStrip(s) ==
    IF s # <<>> /\ IsSpace(s[Len(s)]) THEN RStrip(Take(s, Len(s) - 1)) ELSE s
Strip(s) == RStrip(LStrip(s))

\* str.replace(a, b) for single symbols a, b
Replace(s, a, b) == [i \in 1..Len(s) |-> IF s[i] = a THEN b ELSE s[i]]


StartsWith(s, c) == Len(s) >= 1 /\ s[1] = c

(***************************************************************************)
(* Inputs.                                                                 *)
(***************************************************************************)
\* the sound files trigger tables name
SoundFiles == {"s1", "s2", "s3"}

\* ConfigManager.DEFAULT_CONFIG["triggers"]: two independent phrases
DefaultTriggers ==
    <<[trigger |-> <<"a">>, sound |-> "s1"],
      [trigger |-> <<"b">>, sound |-> "s2"]>>

\* ":<sender>!<prefix> PRIVMSG #<channel> :" of a chat line
ChatPrefix == <<":", "u", "!", "u", " ", "PRIVMSG", " ", "#", "c", " ", ":">>
\* lines the server sends
PingLine == <<"PING", " ", ":", "t">>
TriggerLine == ChatPrefix \o <<"x", "A">>
PlainLine == ChatPrefix \o <<"x">>
JoinLine == <<":", "u", "!", "u", " ", "JOIN", " ", "#", "c">>

\* the lines a client sends: the handshake (twitch_sound_alert.py lines
\* 160-162, twitch_listener.py lines 108-110) and the listener's keep-alive
\* reply (twitch_listener.py line 153)
HandshakeLines ==
    << <<"PASS", " ", "o">> \o CRLF,
       <<"NICK", " ", "u">> \o CRLF,
       <<"JOIN", " ", "#", "c">> \o CRLF >>
PongLine == <<"PONG", " ", ":", "t">> \o CRLF
\* no socket is in use; a socket whose handshake failed is not used again
NoSends == [sock |-> 0, lines |-> <<>>]
\* what handling one line does: the replies it sends, each with the socket it
\* goes out on, and the calls of on_trigger it makes, each with its arguments
Unhandled == [pongs |-> <<>>, calls |-> <<>>]

\* what one recv of a connected client may return (bytes)
ServerChunks ==
    { PingLine \o CRLF \o PingLine \o CRLF,
      TriggerLine \o CRLF,
      PlainLine \o CRLF \o JoinLine \o CRLF,
      TriggerLine \o CRLF \o PingLine \o CRLF }

(***************************************************************************)
(* State.                                                                  *)
(***************************************************************************)
VARIABLES
    \* ---- TwitchBot (src/twitch_sound_alert.py) ----
    bot_pc,                  \* position of the thread executing TwitchBot.run
    bot_running,             \* self.running
    bot_connected,           \* self.connected
    bot_socket,              \* self.socket: a socket id, 0 for None
    reconnect_delay,         \* self.reconnect_delay
    max_reconnect_delay,     \* self.max_reconnect_delay
    current_reconnect_delay, \* self.current_reconnect_delay
    bot_msgs,                \* response.split('\r\n') of the current response
    bot_i,                   \* how many of bot_msgs the for loop has taken
    bot_lost,                \* a zero-byte read was not yet followed by a sleep or a connect()
    stop_pc,                 \* position of a thread executing TwitchBot.stop
    stop_called,             \* stop() has been called
    \* ---- configuration (ConfigManager.config) ----
    config_complete,         \* oauth_token, bot_username, twitch_channel all non-empty
    triggers,                \* config["triggers"], in insertion order
    \* ---- AudioPlayer ----
    audio_initialized,       \* self.initialized
    audio_threads,           \* live _play_sound_thread threads, in start order
    audio_lock,              \* self.lock of the AudioPlayer is held
    \* ---- TwitchListener (src/release/twitch_listener.py) ----
    lis_pc,                  \* position of the thread executing TwitchListener.run
    lis_running,             \* self.running
    self_backoff,            \* self.backoff
    run_backoff,             \* the local `backoff` of run()
    run_sock,                \* the local `sock` of run(): a socket id, 0 for None
    conn_sock,               \* the local `sock` of connect(), 0 outside connect()
    conn_from,               \* which call of connect() is executing
    buffer,                  \* the local `buffer` of run()
    sleep_left,              \* time left of the time.sleep the run thread is in
    lis_fails,               \* failed connect attempts since the last handshake
    players,                 \* how many play_sound threads are where (see NoPlayers)
    lstop_pc,                \* position of a thread executing TwitchListener.stop
    join_left,               \* time left of the thread.join(timeout=5) of stop()
    stop_slept,              \* stop() set running False during a sleep of connect()
    oauth_token_set,         \* self.oauth_token is not empty
    \* ---- a byte stream fed to both framers ----
    wire,                    \* the bytes the server sends
    wire_pos,                \* how many of them recv has returned so far
    lis_out,                 \* the lines TwitchListener.run has processed
    bot_out,                 \* the messages TwitchBot.run has handled
    \* ---- environment ----
    open_sockets,            \* ids of the sockets the program holds that are open
    leaked,                  \* a socket the program no longer holds is still open
    created,                 \* number of sockets created so far
    received,                \* number of chunks the server has delivered
    \* ---- what goes out and what is called back ----
    sent,                    \* the socket in use and the lines sent on it
    buf_socks,               \* the sockets the characters being handled came from
    stop_recv,               \* stop() set running False while run() was in recv
    handled,                 \* what the handling of the line taken last did
    \* ---- the configuration in the hands of the run thread of the bot ----
    scan,                    \* the local `triggers` of handle_message and the
                             \* place of its for loop in it (see NoScan)
    run_cfg,                 \* what the configuration was when run() began
    \* ---- the window that owns the bot (src/gui.py) ----
    save_pc,                 \* position of the GUI thread in save_config
    gui_running,             \* self.running of TwitchSoundAlertGUI
    orphans                  \* run threads of bots the window no longer refers to

botVars == <<bot_pc, bot_running, bot_connected, bot_socket, reconnect_delay,
             max_reconnect_delay, current_reconnect_delay, bot_msgs, bot_i,
             bot_lost, stop_pc, stop_called>>
cfgVars == <<config_complete, triggers>>
useVars == <<scan, run_cfg>>
guiVars == <<save_pc, gui_running, orphans>>
audioVars == <<audio_initialized, audio_threads, audio_lock>>
envVars == <<open_sockets, leaked, created, received>>
lisVars == <<lis_pc, lis_running, self_backoff, run_backoff, run_sock, conn_sock,
             conn_from, buffer, sleep_left, lis_fails, players, lstop_pc, join_left,
             stop_slept, oauth_token_set>>
frameVars == <<wire, wire_pos, lis_out, bot_out>>
\* what goes out and what is called back
obsVars == <<sent, buf_socks, stop_recv, handled>>
vars == <<botVars, cfgVars, useVars, guiVars, audioVars, lisVars, envVars,
          frameVars, obsVars>>
\* what the TwitchBot program is made of
botSide == <<botVars, cfgVars, useVars, guiVars, audioVars>>

(***************************************************************************)
(* AudioPlayer.                                                            *)
(***************************************************************************)
\* AudioPlayer.play_sound(filepath): returns at once; starts a daemon thread
\* when the mixer is initialised and the file exists.
PlaySound(threads, filepath, existing) ==
    IF ~audio_initialized THEN threads
    ELSE IF filepath \notin existing THEN threads
    ELSE Append(threads, [file |-> filepath, st |-> "wait"])

\* play_sound for each file of a sequence, in order
RECURSIVE PlaySounds(_, _, _)
PlaySounds(threads, files, existing) ==
    IF files = <<>> THEN threads
    ELSE PlaySounds(PlaySound(threads, files[1], existing), Drop(files, 1), existing)

\* self.lock is free
LockFree == ~audio_lock

RemoveAt(s, i) == Take(s, i - 1) \o Drop(s, i)

\* _play_sound_thread, line 65: `with self.lock` acquires the lock
AudioAcquire ==
    /\ LockFree
    /\ \E i \in 1..Len(audio_threads) :
          /\ audio_threads[i].st = "wait"
          /\ audio_threads' = [audio_threads EXCEPT ![i].st = "play"]
    /\ audio_lock' = TRUE
    /\ UNCHANGED <<botVars, cfgVars, useVars, guiVars, audio_initialized, envVars, lisVars, frameVars, obsVars>>

\* lines 72-73 with the lock kept when the thread ends
AudioLoggedHolding ==
    /\ \E i \in 1..Len(audio_threads) :
          /\ audio_threads[i].st = "error"
          /\ audio_threads' = RemoveAt(audio_threads, i)
    /\ UNCHANGED <<botVars, cfgVars, useVars, guiVars, audio_initialized, audio_lock, envVars, lisVars, frameVars, obsVars>>

\* lines 67-71: the sound has played to its end and was logged; the
\* with-block releases the lock and the thread ends
AudioFinish ==
    /\ \E i \in 1..Len(audio_threads) :
          /\ audio_threads[i].st = "play"
          /\ audio_threads' = RemoveAt(audio_threads, i)
    /\ audio_lock' = FALSE
    /\ UNCHANGED <<botVars, cfgVars, useVars, guiVars, audio_initialized, envVars, lisVars, frameVars, obsVars>>

\* lines 67-72: Sound(), play() or get_busy() raises: the thread enters the
\* except clause, inside the with-block
AudioRaise ==
    /\ \E i \in 1..Len(audio_threads) :
          /\ audio_threads[i].st = "play"
          /\ audio_threads' = [audio_threads EXCEPT ![i].st = "error"]
    /\ UNCHANGED <<botVars, cfgVars, useVars, guiVars, audio_initialized, audio_lock, envVars, lisVars, frameVars, obsVars>>

\* line 73: the error is logged; the with-block releases the lock and the
\* thread ends
AudioLogged ==
    /\ \E i \in 1..Len(audio_threads) :
          /\ audio_threads[i].st = "error"
          /\ audio_threads' = RemoveAt(audio_threads, i)
    /\ audio_lock' = FALSE
    /\ UNCHANGED <<botVars, cfgVars, useVars, guiVars, audio_initialized, envVars, lisVars, frameVars, obsVars>>

(***************************************************************************)
(* TwitchBot.handle_message.                                               *)
(***************************************************************************)
\* lines 216-220 without the break: every matching trigger plays
ScanTriggersNoBreak(table, chat_message) ==
    LET hit == {i \in 1..Len(table) :
                   Contains(Lower(table[i].trigger), Lower(chat_message))}
        F[i \in 0..Len(table)] ==
            IF i = 0 THEN <<>>
            ELSE IF i \in hit THEN Append(F[i - 1], table[i].sound) ELSE F[i - 1]
    IN F[Len(table)]

\* lines 216-220: the files passed to audio.play_sound by the scan of the
\* trigger table, in insertion order, stopping at the first hit
RECURSIVE ScanTriggers(_, _)
ScanTriggers(table, chat_message) ==
    IF table = <<>> THEN <<>>
    ELSE IF Contains(Lower(table[1].trigger), Lower(chat_message))
         THEN <<table[1].sound>>
         ELSE ScanTriggers(Drop(table, 1), chat_message)

\* line 205 and the two len(...) > 1 tests of lines 208-211
HasChatMessage(message) ==
    /\ Contains(<<"PRIVMSG">>, message)
    /\ \E rest \in {SplitOnce(<<"PRIVMSG">>, message)[2]} : Contains(<<":">>, rest)

\* lines 208-212: chat_message (each step's value is bound once, as the code
\* binds parts and msg_part)
ChatMessage(message) ==
    CHOOSE text \in {Strip(SplitOnce(<<":">>, rest)[2]) :
                        rest \in {SplitOnce(<<"PRIVMSG">>, message)[2]}} : TRUE

\* line 200: the reply to a PING
Pong(message) == Replace(message, "PING", "PONG") \o CRLF

\* the files handle_message passes to audio.play_sound for a message
Dispatches(message, table) ==
    IF StartsWith(message, "PING") THEN <<>>
    ELSE IF HasChatMessage(message)
         THEN CHOOSE files \in {ScanTriggers(table, chat_message) :
                                  chat_message \in {ChatMessage(message)}} : TRUE
    ELSE <<>>


(***************************************************************************)
(* TwitchBot.run, on its own thread.                                       *)
(***************************************************************************)

\* socket objects lose their last reference while open: whether the runtime
\* closes them then is up to the runtime
Leaks(socks) == IF socks \cap open_sockets = {} THEN {leaked} ELSE {leaked, TRUE}

\* a socket operation can succeed only on a socket that has not been closed
Usable(sock) == sock \in open_sockets

\* line 226: self.running = True
BotStart ==
    /\ bot_pc = "start"
    /\ bot_running' = TRUE
    /\ bot_pc' = "loop"
    /\ run_cfg' = [complete |-> config_complete, table |-> triggers]
    /\ UNCHANGED <<bot_connected, bot_socket, reconnect_delay, max_reconnect_delay, current_reconnect_delay,
                   bot_msgs, bot_i, bot_lost, stop_pc, stop_called, cfgVars, scan, guiVars, audioVars, envVars, lisVars, frameVars, obsVars>>

\* line 228: while self.running
BotLoop ==
    /\ bot_pc = "loop"
    /\ bot_pc' = IF bot_running THEN "check" ELSE "final"
    /\ UNCHANGED <<bot_running, bot_connected, bot_socket, reconnect_delay, max_reconnect_delay,
                   current_reconnect_delay, bot_msgs, bot_i, bot_lost, stop_pc, stop_called,
                   cfgVars, useVars, guiVars, audioVars, envVars, lisVars, frameVars, obsVars>>

\* line 229: if not self.connected
BotCheck ==
    /\ bot_pc = "check"
    /\ bot_pc' = IF bot_connected THEN "recv" ELSE "create"
    /\ UNCHANGED <<bot_running, bot_connected, bot_socket, reconnect_delay, max_reconnect_delay,
                   current_reconnect_delay, bot_msgs, bot_i, bot_lost, stop_pc, stop_called,
                   cfgVars, useVars, guiVars, audioVars, envVars, lisVars, frameVars, obsVars>>

\* lines 147-148: self.socket = socket.socket().  The socket self.socket named
\* before loses its last reference; whether the runtime closes it then is up
\* to the runtime.
BotCreate ==
    /\ bot_pc = "create"
    /\ created < MaxSockets
    /\ created' = created + 1
    /\ bot_socket' = created + 1
    /\ open_sockets' = (open_sockets \ {bot_socket}) \cup {created + 1}
    /\ leaked' \in Leaks({bot_socket})
    /\ bot_pc' = "connect"
    /\ bot_lost' = FALSE
    /\ sent' = [sock |-> created + 1, lines |-> <<>>]
    /\ UNCHANGED <<bot_running, bot_connected, reconnect_delay, max_reconnect_delay, current_reconnect_delay,
                   bot_msgs, bot_i, stop_pc, stop_called, cfgVars, useVars, guiVars, audioVars, received, lisVars,
                   frameVars, buf_socks, stop_recv, handled>>

\* line 149: self.socket.connect(...): established, or refused / timed out /
\* socket already closed (raises)
BotConnect ==
    /\ bot_pc = "connect"
    /\ \/ Usable(bot_socket) /\ bot_pc' = "config"
       \/ bot_pc' = "failed"
    /\ UNCHANGED <<bot_running, bot_connected, bot_socket, reconnect_delay, max_reconnect_delay,
                   current_reconnect_delay, bot_msgs, bot_i, bot_lost, stop_pc, stop_called,
                   cfgVars, useVars, guiVars, audioVars, envVars, lisVars, frameVars, obsVars>>

\* lines 152-158: missing configuration returns False; the socket stays as it is
BotConfig ==
    /\ bot_pc = "config"
    /\ bot_pc' = IF config_complete THEN "pass" ELSE "sleep"
    /\ UNCHANGED <<bot_running, bot_connected, bot_socket, reconnect_delay, max_reconnect_delay,
                   current_reconnect_delay, bot_msgs, bot_i, bot_lost, stop_pc, stop_called,
                   cfgVars, useVars, guiVars, audioVars, envVars, lisVars, frameVars, obsVars>>

\* lines 160-162: the three handshake sends PASS, NICK, JOIN; each may raise
BotHandshake ==
    /\ bot_pc \in {"pass", "nick", "join"}
    /\ \/ /\ Usable(bot_socket)
          /\ bot_pc' = CASE bot_pc = "pass" -> "nick"
                         [] bot_pc = "nick" -> "join"
                         [] bot_pc = "join" -> "established"
          /\ sent' = [sent EXCEPT !.lines =
                         Append(@, CASE bot_pc = "pass" -> HandshakeLines[1]
                                     [] bot_pc = "nick" -> HandshakeLines[2]
                                     [] bot_pc = "join" -> HandshakeLines[3])]
       \/ bot_pc' = "failed" /\ sent' = NoSends
    /\ UNCHANGED <<bot_running, bot_connected, bot_socket, reconnect_delay, max_reconnect_delay,
                   current_reconnect_delay, bot_msgs, bot_i, bot_lost, stop_pc, stop_called,
                   cfgVars, useVars, guiVars, audioVars, envVars, lisVars, frameVars, buf_socks,
                   stop_recv, handled>>

\* lines 164-167: connected; the delay is reset; connect() returns True
BotEstablished ==
    /\ bot_pc = "established"
    /\ bot_connected' = TRUE
    /\ current_reconnect_delay' = reconnect_delay
    /\ bot_pc' = "recv"
    /\ UNCHANGED <<bot_running, bot_socket, reconnect_delay, max_reconnect_delay, bot_msgs, bot_i, bot_lost,
                   stop_pc, stop_called, cfgVars, useVars, guiVars, audioVars, envVars, lisVars, frameVars, obsVars>>

\* lines 169-172: except Exception: connected = False; return False
BotConnectFailed ==
    /\ bot_pc = "failed"
    /\ bot_connected' = FALSE
    /\ bot_pc' = "sleep"
    /\ UNCHANGED <<bot_running, bot_socket, reconnect_delay, max_reconnect_delay, current_reconnect_delay,
                   bot_msgs, bot_i, bot_lost, stop_pc, stop_called, cfgVars, useVars, guiVars, audioVars, envVars, lisVars, frameVars, obsVars>>

\* line 232: time.sleep(self.current_reconnect_delay); a negative length raises
\* ValueError outside every try, which ends run()
BotSleep ==
    /\ bot_pc = "sleep"
    /\ IF current_reconnect_delay < 0
       THEN bot_pc' = "crashed" /\ UNCHANGED bot_lost
       ELSE bot_pc' = "backoff" /\ bot_lost' = FALSE
    /\ UNCHANGED <<bot_running, bot_connected, bot_socket, reconnect_delay, max_reconnect_delay,
                   current_reconnect_delay, bot_msgs, bot_i, stop_pc, stop_called, cfgVars, useVars, guiVars,
                   audioVars, envVars, lisVars, frameVars, obsVars>>

\* lines 234-238 with the cap forgotten
BotBackoffNoCap ==
    /\ bot_pc = "backoff"
    /\ current_reconnect_delay' = current_reconnect_delay * 2
    /\ bot_pc' = "loop"
    /\ UNCHANGED <<bot_running, bot_connected, bot_socket, reconnect_delay, max_reconnect_delay, bot_msgs,
                   bot_i, bot_lost, stop_pc, stop_called, cfgVars, useVars, guiVars, audioVars, envVars, lisVars, frameVars, obsVars>>

\* lines 234-238: exponential backoff; continue
BotBackoff ==
    /\ bot_pc = "backoff"
    /\ current_reconnect_delay' =
          Min(current_reconnect_delay * 2, max_reconnect_delay)
    /\ bot_pc' = "loop"
    /\ UNCHANGED <<bot_running, bot_connected, bot_socket, reconnect_delay, max_reconnect_delay, bot_msgs,
                   bot_i, bot_lost, stop_pc, stop_called, cfgVars, useVars, guiVars, audioVars, envVars, lisVars, frameVars, obsVars>>

\* lines 242, 250: recv returned data; response.split('\r\n')
BotRecvData ==
    /\ bot_pc = "recv"
    /\ Usable(bot_socket)
    /\ received < MaxRecv
    /\ received' = received + 1
    /\ \E chunk \in ServerChunks : bot_msgs' = Split(CRLF, Decode(chunk))
    /\ buf_socks' = {bot_socket}
    /\ bot_pc' = "handle"
    /\ UNCHANGED <<bot_running, bot_connected, bot_socket, reconnect_delay, max_reconnect_delay,
                   current_reconnect_delay, bot_i, bot_lost, stop_pc, stop_called, cfgVars, useVars, guiVars,
                   audioVars, open_sockets, leaked, created, lisVars, frameVars,
                   sent, stop_recv, handled>>

\* lines 244-247: zero bytes: connected = False; continue
BotRecvEmpty ==
    /\ bot_pc = "recv"
    /\ Usable(bot_socket)
    /\ bot_connected' = FALSE
    /\ bot_lost' = TRUE
    /\ bot_pc' = "loop"
    /\ UNCHANGED <<bot_running, bot_socket, reconnect_delay, max_reconnect_delay, current_reconnect_delay,
                   bot_msgs, bot_i, stop_pc, stop_called, cfgVars, useVars, guiVars, audioVars, envVars, lisVars, frameVars, obsVars>>

\* line 242: nothing arrived within the 10 seconds of line 148: recv raises
\* socket.timeout
BotRecvTimeout ==
    /\ bot_pc = "recv"
    /\ bot_pc' = "timeout"
    /\ UNCHANGED <<bot_running, bot_connected, bot_socket, reconnect_delay, max_reconnect_delay,
                   current_reconnect_delay, bot_msgs, bot_i, bot_lost, stop_pc, stop_called,
                   cfgVars, useVars, guiVars, audioVars, envVars, lisVars, frameVars, obsVars>>

\* lines 254-255: except socket.timeout: continue
BotTimeoutContinue ==
    /\ bot_pc = "timeout"
    /\ bot_pc' = "loop"
    /\ UNCHANGED <<bot_running, bot_connected, bot_socket, reconnect_delay, max_reconnect_delay,
                   current_reconnect_delay, bot_msgs, bot_i, bot_lost, stop_pc, stop_called,
                   cfgVars, useVars, guiVars, audioVars, envVars, lisVars, frameVars, obsVars>>

\* line 242 raising: connection reset, or the socket was closed under recv
BotRecvError ==
    /\ bot_pc = "recv"
    /\ bot_pc' = "except"
    /\ UNCHANGED <<bot_running, bot_connected, bot_socket, reconnect_delay, max_reconnect_delay,
                   current_reconnect_delay, bot_msgs, bot_i, bot_lost, stop_pc, stop_called,
                   cfgVars, useVars, guiVars, audioVars, envVars, lisVars, frameVars, obsVars>>

\* the message the for loop of line 250 takes next
BotMessage == bot_msgs[bot_i + 1]

\* lines 250-251: the for loop is over, or skips an empty piece
BotNextMessage ==
    /\ bot_pc = "handle"
    /\ \/ /\ bot_i = Len(bot_msgs)
          /\ bot_pc' = "loop" /\ bot_msgs' = <<>> /\ bot_i' = 0
          /\ buf_socks' = {}
       \/ /\ bot_i < Len(bot_msgs) /\ BotMessage = <<>>
          /\ bot_i' = bot_i + 1
          /\ UNCHANGED <<bot_pc, bot_msgs, buf_socks>>
    /\ handled' = Unhandled
    /\ UNCHANGED <<bot_running, bot_connected, bot_socket, reconnect_delay, max_reconnect_delay,
                   current_reconnect_delay, bot_lost, stop_pc, stop_called, cfgVars, useVars, guiVars,
                   audioVars, envVars, lisVars, frameVars, sent, stop_recv>>

\* lines 199-202: a PING is answered on self.socket; a failing send raises out
\* of handle_message into run()'s except Exception
BotHandlePing ==
    /\ bot_pc = "handle"
    /\ bot_i < Len(bot_msgs) /\ BotMessage # <<>>
    /\ StartsWith(BotMessage, "PING")
    /\ \/ /\ Usable(bot_socket)
          /\ handled' = [Unhandled EXCEPT !.pongs =
                            <<[sock |-> bot_socket, line |-> Pong(BotMessage)]>>]
          /\ bot_i' = bot_i + 1
          /\ UNCHANGED <<bot_pc, bot_msgs, buf_socks>>
       \/ /\ bot_pc' = "except" /\ bot_msgs' = <<>> /\ bot_i' = 0
          /\ handled' = Unhandled /\ buf_socks' = {}
    /\ UNCHANGED <<bot_running, bot_connected, bot_socket, reconnect_delay, max_reconnect_delay,
                   current_reconnect_delay, bot_lost, stop_pc, stop_called, cfgVars, useVars, guiVars, audioVars,
                   envVars, lisVars, frameVars, sent, stop_recv>>

\* lines 205-222 with play_sound waiting for the playbacks in progress to end
\* before it starts the next
BotHandleChatWaiting ==
    /\ bot_pc = "handle"
    /\ bot_i < Len(bot_msgs) /\ BotMessage # <<>>
    /\ ~StartsWith(BotMessage, "PING")
    /\ audio_threads = <<>>
    /\ \E existing \in SUBSET SoundFiles, files \in {Dispatches(BotMessage, triggers)} :
          audio_threads' = PlaySounds(audio_threads, files, existing)
    /\ bot_i' = bot_i + 1
    /\ handled' = Unhandled
    /\ UNCHANGED <<bot_pc, bot_msgs, bot_running, bot_connected, bot_socket,
                   reconnect_delay, max_reconnect_delay, current_reconnect_delay, bot_lost, stop_pc, stop_called, cfgVars, useVars, guiVars,
                   audio_initialized, audio_lock, envVars, lisVars, frameVars, sent, buf_socks,
                   stop_recv>>

\* lines 205-222: any other message: the trigger scan and the dispatch.
\* `existing` are the sound files os.path.exists finds.
BotHandleChat ==
    /\ bot_pc = "handle"
    /\ bot_i < Len(bot_msgs) /\ BotMessage # <<>>
    /\ ~StartsWith(BotMessage, "PING")
    /\ \E existing \in SUBSET SoundFiles, files \in {Dispatches(BotMessage, triggers)} :
          audio_threads' = PlaySounds(audio_threads, files, existing)
    /\ bot_i' = bot_i + 1
    /\ handled' = Unhandled
    /\ UNCHANGED <<bot_pc, bot_msgs, bot_running, bot_connected, bot_socket,
                   reconnect_delay, max_reconnect_delay, current_reconnect_delay, bot_lost, stop_pc, stop_called, cfgVars, useVars, guiVars,
                   audio_initialized, audio_lock, envVars, lisVars, frameVars, sent, buf_socks,
                   stop_recv>>

\* self.disconnect(), lines 176-181: close self.socket if there is one
Disconnected == open_sockets \ {bot_socket}

\* lines 256-259: except Exception: connected = False; self.disconnect()
BotExcept ==
    /\ bot_pc = "except"
    /\ bot_connected' = FALSE
    /\ open_sockets' = Disconnected
    /\ UNCHANGED leaked
    /\ bot_pc' = "loop"
    /\ UNCHANGED <<bot_running, bot_socket, reconnect_delay, max_reconnect_delay, current_reconnect_delay,
                   bot_msgs, bot_i, bot_lost, stop_pc, stop_called, cfgVars, useVars, guiVars, audioVars,
                   created, received, lisVars, frameVars, obsVars>>

\* line 261: the loop is left; self.disconnect()
BotFinal ==
    /\ bot_pc = "final"
    /\ bot_connected' = FALSE
    /\ open_sockets' = Disconnected
    /\ UNCHANGED leaked
    /\ bot_pc' = "done"
    /\ UNCHANGED <<bot_running, bot_socket, reconnect_delay, max_reconnect_delay, current_reconnect_delay,
                   bot_msgs, bot_i, bot_lost, stop_pc, stop_called, cfgVars, useVars, guiVars, audioVars,
                   created, received, lisVars, frameVars, obsVars>>

BotRun ==
    \/ BotStart \/ BotLoop \/ BotCheck
    \/ BotCreate \/ BotConnect \/ BotConfig \/ BotHandshake
    \/ BotEstablished \/ BotConnectFailed
    \/ BotSleep \/ BotBackoff
    \/ BotRecvData \/ BotRecvEmpty \/ BotRecvTimeout \/ BotTimeoutContinue
    \/ BotRecvError
    \/ BotNextMessage \/ BotHandlePing \/ BotHandleChat
    \/ BotExcept \/ BotFinal

(***************************************************************************)
(* TwitchBot.stop, called from another thread.                             *)
(***************************************************************************)

\* stop() is called
StopCall ==
    /\ bot_pc # "none"
    /\ stop_pc = "idle"
    /\ stop_pc' = "running"
    /\ stop_called' = TRUE
    /\ UNCHANGED <<bot_pc, bot_socket, reconnect_delay, max_reconnect_delay, current_reconnect_delay, bot_msgs,
                   bot_i, bot_lost, bot_running, bot_connected, cfgVars, useVars, guiVars, audioVars, envVars, lisVars, frameVars, obsVars>>

\* line 265 flipping the flag instead of clearing it
StopRunningFlipped ==
    /\ stop_pc = "running"
    /\ bot_running' = ~bot_running
    /\ stop_pc' = "close"
    /\ UNCHANGED <<bot_pc, bot_socket, reconnect_delay, max_reconnect_delay, current_reconnect_delay, bot_msgs,
                   bot_i, bot_lost, bot_connected, stop_called, cfgVars, useVars, guiVars, audioVars, envVars, lisVars, frameVars, obsVars>>

\* line 265: self.running = False
StopRunning ==
    /\ stop_pc = "running"
    /\ bot_running' = FALSE
    /\ stop_pc' = "close"
    /\ UNCHANGED <<bot_pc, bot_socket, reconnect_delay, max_reconnect_delay, current_reconnect_delay, bot_msgs,
                   bot_i, bot_lost, bot_connected, stop_called, cfgVars, useVars, guiVars, audioVars, envVars, lisVars, frameVars, obsVars>>

\* lines 176-180: disconnect(): self.socket.close()
StopClose ==
    /\ stop_pc = "close"
    /\ open_sockets' = Disconnected
    /\ UNCHANGED leaked
    /\ stop_pc' = "connected"
    /\ UNCHANGED <<bot_pc, bot_socket, reconnect_delay, max_reconnect_delay, current_reconnect_delay, bot_msgs,
                   bot_i, bot_lost, bot_running, bot_connected, stop_called, cfgVars, useVars, guiVars,
                   audioVars, created, received, lisVars, frameVars, obsVars>>

\* line 181: self.connected = False; stop() returns
StopConnected ==
    /\ stop_pc = "connected"
    /\ bot_connected' = FALSE
    /\ stop_pc' = "idle"
    /\ UNCHANGED <<bot_pc, bot_socket, reconnect_delay, max_reconnect_delay, current_reconnect_delay, bot_msgs,
                   bot_i, bot_lost, bot_running, stop_called, cfgVars, useVars, guiVars, audioVars, envVars, lisVars, frameVars, obsVars>>

BotStop == StopCall \/ StopRunning \/ StopClose \/ StopConnected

(***************************************************************************)
(* The TwitchBot program.                                                  *)
(***************************************************************************)
\* the play_sound threads of a TwitchListener: `start` of them were started
\* and have not looked for the file, `failing` found it missing or had the
\* player raise, `failed` have ended after that, `logged` failure messages
\* went to on_log; `late`: one was started after a failed one had ended
NoPlayers == [start |-> 0, failing |-> 0, failed |-> 0, logged |-> 0, late |-> FALSE]

\* handle_message is not in its loop over the trigger table
NoScan == [on |-> FALSE, table |-> <<>>, i |-> 0]

\* nothing was sent, received or called back
NothingObserved ==
    /\ sent = NoSends
    /\ buf_socks = {}
    /\ stop_recv = FALSE
    /\ handled = Unhandled

\* no byte stream is being framed
NoFrame ==
    /\ wire = <<>>
    /\ wire_pos = 0
    /\ lis_out = <<>>
    /\ bot_out = <<>>

\* no TwitchListener exists in the TwitchBot program
NoListener ==
    /\ lis_pc = "none"
    /\ lis_running = FALSE
    /\ self_backoff = 1
    /\ run_backoff = 1
    /\ run_sock = 0
    /\ conn_sock = 0
    /\ conn_from = "none"
    /\ buffer = <<>>
    /\ sleep_left = 0
    /\ lis_fails = 0
    /\ players = NoPlayers
    /\ lstop_pc = "idle"
    /\ join_left = 0
    /\ stop_slept = FALSE
    /\ oauth_token_set = FALSE

\* ConfigManager.DEFAULT_CONFIG: "reconnect_delay" and "max_reconnect_delay"
DefaultReconnectDelay == 5
DefaultMaxReconnectDelay == 300

\* values the two delays may be configured to (gui.py save_config takes any int)
DelayChoices == {-1, 0, 1, 3}

\* TwitchBot.__init__, lines 134-142, with AudioPlayer.__init__ and the
\* configuration it is given: the delays are read once, here
BotConstructed(delay, max_delay) ==
    /\ bot_pc = "start"
    /\ bot_running = FALSE
    /\ bot_connected = FALSE
    /\ bot_socket = 0
    /\ reconnect_delay = delay
    /\ max_reconnect_delay = max_delay
    /\ current_reconnect_delay = delay
    /\ bot_msgs = <<>>
    /\ bot_i = 0
    /\ bot_lost = FALSE
    /\ stop_pc = "idle"
    /\ stop_called = FALSE
    /\ triggers = DefaultTriggers
    /\ audio_threads = <<>>
    /\ audio_lock = FALSE
    /\ open_sockets = {}
    /\ leaked = FALSE
    /\ created = 0
    /\ received = 0
    /\ NoListener
    /\ NoFrame
    /\ NothingObserved
    /\ scan = NoScan
    /\ run_cfg = [complete |-> FALSE, table |-> <<>>]
    /\ save_pc = "idle"
    /\ gui_running = TRUE
    /\ orphans = 0

\* the bot with the default delays
BotInit ==
    /\ BotConstructed(DefaultReconnectDelay, DefaultMaxReconnectDelay)
    /\ config_complete \in BOOLEAN
    /\ audio_initialized \in BOOLEAN

\* the bot with any configured pair of delays
DelayInit ==
    /\ \E d \in DelayChoices, m \in DelayChoices : BotConstructed(d, m)
    /\ config_complete \in BOOLEAN
    /\ audio_initialized = TRUE

BotNext ==
    BotRun \/ BotStop \/ AudioAcquire \/ AudioFinish \/ AudioRaise \/ AudioLogged

SpecBot == BotInit /\ [][BotNext]_vars


\* connecting, failing, backing off, losing the connection: run() of the bot
\* with a server that sends no line, the part that reads or writes the delays
QuietRun ==
    \/ BotStart \/ BotLoop \/ BotCheck
    \/ BotCreate \/ BotConnect \/ BotConfig \/ BotHandshake
    \/ BotEstablished \/ BotConnectFailed
    \/ BotSleep \/ BotBackoff
    \/ BotRecvEmpty \/ BotRecvTimeout \/ BotTimeoutContinue \/ BotRecvError
    \/ BotExcept \/ BotFinal

\* the bot with any configured pair of delays, with stop()
SpecDelay == DelayInit /\ [][QuietRun \/ BotStop]_vars

\* the bot with the default delays, both threads scheduled: the run thread (a
\* daemon thread started by gui.py start_bot) keeps taking steps, and a stop()
\* that was called runs to its end
SpecBotFair ==
    /\ BotInit /\ [][QuietRun \/ BotStop]_vars
    /\ WF_vars(QuietRun)
    /\ WF_vars(StopRunning \/ StopClose \/ StopConnected)

(***************************************************************************)
(* handle_message statement by statement, with save_config of the window   *)
(* (src/gui.py) running on the GUI thread.                                 *)
(***************************************************************************)
\* lines 205-215: a message that is no PING; a chat message is extracted and
\* triggers = self.config.get("triggers", {}) takes the table the
\* configuration holds now
BotScanBegin ==
    /\ bot_pc = "handle"
    /\ bot_i < Len(bot_msgs) /\ BotMessage # <<>>
    /\ ~StartsWith(BotMessage, "PING")
    /\ ~scan.on
    /\ IF HasChatMessage(BotMessage)
       THEN scan' = [on |-> TRUE, table |-> triggers, i |-> 0] /\ UNCHANGED bot_i
       ELSE bot_i' = bot_i + 1 /\ UNCHANGED scan
    /\ handled' = Unhandled
    /\ UNCHANGED <<bot_pc, bot_msgs, bot_running, bot_connected, bot_socket,
                   reconnect_delay, max_reconnect_delay, current_reconnect_delay,
                   bot_lost, stop_pc, stop_called, cfgVars, run_cfg, guiVars,
                   audioVars, envVars, lisVars, frameVars, sent, buf_socks,
                   stop_recv>>

\* lines 216-220: one turn of the for loop over the table taken at line 215:
\* the next trigger does not hit; or it hits, its sound is passed to
\* play_sound and the loop breaks; or the table is exhausted
BotScanStep ==
    /\ bot_pc = "handle"
    /\ scan.on
    /\ \E text \in {ChatMessage(BotMessage)} :
          IF /\ scan.i < Len(scan.table)
             /\ ~Contains(Lower(scan.table[scan.i + 1].trigger), Lower(text))
          THEN /\ scan' = [scan EXCEPT !.i = @ + 1]
               /\ UNCHANGED <<bot_i, audio_threads>>
          ELSE /\ scan' = NoScan
               /\ bot_i' = bot_i + 1
               /\ IF scan.i < Len(scan.table)
                  THEN \E existing \in SUBSET SoundFiles :
                          audio_threads' =
                             PlaySound(audio_threads, scan.table[scan.i + 1].sound,
                                       existing)
                  ELSE UNCHANGED audio_threads
    /\ UNCHANGED <<bot_pc, bot_msgs, bot_running, bot_connected, bot_socket,
                   reconnect_delay, max_reconnect_delay, current_reconnect_delay,
                   bot_lost, stop_pc, stop_called, cfgVars, run_cfg, guiVars,
                   audio_initialized, audio_lock, envVars, lisVars, frameVars, obsVars>>

\* the rows the trigger list of the window may hold when it is saved
TreeTables ==
    { DefaultTriggers,
      <<[trigger |-> <<"x">>, sound |-> "s3"]>>,
      <<[trigger |-> <<"b">>, sound |-> "s2"], [trigger |-> <<"x">>, sound |-> "s3"]>> }

\* gui.py lines 219-223 writing into the table the configuration holds
\* (clear, then fill) instead of replacing it: a loop that is in that table
\* sees the rows change under it
SaveConfigInPlace ==
    /\ bot_pc # "none"
    /\ \/ /\ save_pc = "idle"
          /\ config_complete' \in BOOLEAN
          /\ save_pc' \in {"triggers", "idle"}
          /\ UNCHANGED <<triggers, scan>>
       \/ /\ save_pc = "triggers"
          /\ triggers' \in TreeTables
          /\ scan' = IF scan.on THEN [scan EXCEPT !.table = triggers'] ELSE scan
          /\ save_pc' = "idle"
          /\ UNCHANGED config_complete
    /\ UNCHANGED <<botVars, run_cfg, gui_running, orphans, audioVars, envVars,
                   lisVars, frameVars, obsVars>>

\* gui.py save_config, lines 211-228, on the GUI thread.  Lines 212-216: the
\* channel, the user name and the token are set to what the entries hold
\* (any of them may be empty); int() of a delay entry may raise, which ends
\* the save at line 227.  Lines 219-225: a new dict is built from the rows of
\* the trigger list and set as the table, and the file is written.
SaveConfig ==
    /\ bot_pc # "none"
    /\ \/ /\ save_pc = "idle"
          /\ config_complete' \in BOOLEAN
          /\ save_pc' \in {"triggers", "idle"}
          /\ UNCHANGED triggers
       \/ /\ save_pc = "triggers"
          /\ triggers' \in TreeTables
          /\ save_pc' = "idle"
          /\ UNCHANGED config_complete
    /\ UNCHANGED <<botVars, useVars, gui_running, orphans, audioVars, envVars,
                   lisVars, frameVars, obsVars>>

\* the bot as start_bot starts it: the three settings are filled in
BotConfigured == BotInit /\ config_complete = TRUE

\* the bot that is never stopped, with lines arriving and the window saving
SpecConfig ==
    BotConfigured
        /\ [][BotStart \/ BotLoop \/ BotCheck
                \/ BotCreate \/ BotConnect \/ BotConfig \/ BotHandshake
                \/ BotEstablished \/ BotConnectFailed
                \/ BotSleep \/ BotBackoff
                \/ BotRecvEmpty \/ BotRecvTimeout \/ BotTimeoutContinue
                \/ BotRecvError \/ BotExcept
                \/ BotRecvData \/ BotNextMessage \/ BotHandlePing
                \/ BotScanBegin \/ BotScanStep \/ SaveConfig]_vars

(***************************************************************************)
(* The Start and Stop buttons of the window (src/gui.py).  bot_pc and the   *)
(* other variables of the bot are those of self.bot, the TwitchBot made     *)
(* last, and of its run thread; the run threads of the bots made before it  *)
(* are counted in `orphans` while they are alive.                           *)
(***************************************************************************)
\* the run thread of self.bot has been started and has not ended
BotThreadAlive == bot_pc \notin {"none", "done", "crashed"}

\* stop_bot: self.bot.stop() (running = False, disconnect()), then
\* self.running = False; it does not wait for the run thread
GuiStopBot ==
    /\ bot_pc # "none"
    /\ gui_running /\ save_pc = "idle" /\ stop_pc = "idle"
    /\ bot_running' = FALSE
    /\ open_sockets' = Disconnected
    /\ bot_connected' = FALSE
    /\ stop_called' = TRUE
    /\ gui_running' = FALSE
    /\ UNCHANGED <<bot_pc, bot_socket, reconnect_delay, max_reconnect_delay,
                   current_reconnect_delay, bot_msgs, bot_i, bot_lost, stop_pc,
                   cfgVars, useVars, save_pc, orphans, audioVars, leaked,
                   created, received, lisVars, frameVars, obsVars>>

\* start_bot with the three entries filled: save_config(), a new TwitchBot on
\* the same ConfigManager and AudioPlayer, and its run thread started; the
\* bot it replaces is left to itself, with the socket it may hold
GuiStartBot ==
    /\ bot_pc # "none"
    /\ ~gui_running /\ save_pc = "idle" /\ stop_pc = "idle"
    /\ orphans < MaxOrphans
    /\ config_complete' = TRUE
    /\ triggers' \in TreeTables
    /\ orphans' = IF BotThreadAlive THEN orphans + 1 ELSE orphans
    /\ open_sockets' = Disconnected
    /\ leaked' = (leaked \/ bot_socket \in open_sockets)
    /\ bot_pc' = "start"
    /\ bot_running' = FALSE
    /\ bot_connected' = FALSE
    /\ bot_socket' = 0
    /\ current_reconnect_delay' = reconnect_delay
    /\ bot_msgs' = <<>>
    /\ bot_i' = 0
    /\ bot_lost' = FALSE
    /\ stop_called' = FALSE
    /\ scan' = NoScan
    /\ gui_running' = TRUE
    /\ UNCHANGED <<reconnect_delay, max_reconnect_delay, stop_pc, run_cfg,
                   save_pc, audioVars, created, received, lisVars, frameVars,
                   obsVars>>

\* the run loop of a replaced bot ends
OrphanEnds ==
    /\ orphans > 0
    /\ orphans' = orphans - 1
    /\ UNCHANGED <<botVars, cfgVars, useVars, save_pc, gui_running, audioVars,
                   envVars, lisVars, frameVars, obsVars>>

\* the window after its first Start, with a quiet server
SpecGui ==
    BotConfigured /\ [][QuietRun \/ GuiStopBot \/ GuiStartBot \/ OrphanEnds]_vars

(***************************************************************************)
(* handle_message on one chat message, for any text and any trigger table. *)
(***************************************************************************)

\* the strings over an alphabet of length at most n
RECURSIVE Strings(_, _)
Strings(alphabet, n) ==
    IF n = 0 THEN {<<>>}
    ELSE LET shorter == Strings(alphabet, n - 1)
         IN shorter \cup {Append(t, c) : t \in shorter, c \in alphabet}

\* trigger phrases a table may hold
TriggerKeys ==
    {<<>>, <<"a">>, <<"A">>, <<"b">>, <<"a", "b">>, <<"B", "a">>,
     <<" ", "a">>, <<"a", " ">>}

\* the trigger tables of at most n entries: a dict, so keys are distinct
TriggerTables(n) ==
    {[i \in 1..Len(ks) |-> [trigger |-> ks[i], sound |-> <<"s1", "s2", "s3">>[i]]] :
        ks \in {k \in UNION {[1..m -> TriggerKeys] : m \in 0..n} :
                   \A i, j \in 1..Len(k) : i # j => k[i] # k[j]}}

\* a connected bot whose recv has just returned one chat line
MatchInit ==
    /\ bot_pc = "handle"
    /\ bot_running = TRUE
    /\ bot_connected = TRUE
    /\ bot_socket = 1
    /\ reconnect_delay = DefaultReconnectDelay
    /\ max_reconnect_delay = DefaultMaxReconnectDelay
    /\ current_reconnect_delay = DefaultReconnectDelay
    /\ \E text \in Strings({"a", "A", "b", " "}, MaxText) :
          bot_msgs = Split(CRLF, Decode(ChatPrefix \o text \o CRLF))
    /\ bot_i = 0
    /\ bot_lost = FALSE
    /\ stop_pc = "idle"
    /\ stop_called = FALSE
    /\ config_complete = TRUE
    /\ triggers \in TriggerTables(MaxTable)
    /\ audio_initialized \in BOOLEAN
    /\ audio_threads = <<>>
    /\ audio_lock = FALSE
    /\ open_sockets = {1}
    /\ leaked = FALSE
    /\ created = 1
    /\ received = 1
    /\ NoListener
    /\ NoFrame
    /\ sent = [sock |-> 1, lines |-> HandshakeLines]
    /\ buf_socks = {}
    /\ stop_recv = FALSE
    /\ handled = Unhandled
    /\ scan = NoScan
    /\ run_cfg = [complete |-> TRUE, table |-> triggers]
    /\ save_pc = "idle"
    /\ gui_running = TRUE
    /\ orphans = 0

SpecMatch == MatchInit /\ [][BotHandleChat \/ BotNextMessage]_vars


(***************************************************************************)
(* TwitchListener: the chat-line pattern.                                  *)
(***************************************************************************)
\* the places k where " PRIVMSG #<channel> :<text>" can start for PRIVMSG_RE
\* (line 26) to match: ':' first, a non-empty sender up to the first '!',
\* no newline before k, a non-empty channel without whitespace, " :", and a
\* non-empty text without newline up to the end (or the final newline)
TextEnd(line) == IF line[Len(line)] = "\n" THEN Len(line) - 1 ELSE Len(line)
ChannelEnd(line, k) ==
    IF \E j \in (k + 4)..Len(line) : IsSpace(line[j])
    THEN CHOOSE j \in (k + 4)..Len(line) :
            IsSpace(line[j]) /\ \A h \in (k + 4)..(j - 1) : ~IsSpace(line[h])
    ELSE 0
PrivmsgStarts(line) ==
    IF Len(line) < 3 \/ line[1] # ":" \/ Find(<<"!">>, line) < 3 THEN {}
    ELSE {k \in (Find(<<"!">>, line) + 1)..(Len(line) - 3) :
            /\ SubSeq(line, k, k + 3) = <<" ", "PRIVMSG", " ", "#">>
            /\ \A j \in (Find(<<"!">>, line) + 1)..(k - 1) : line[j] # "\n"
            /\ LET e == ChannelEnd(line, k)
               IN /\ e >= k + 5
                  /\ line[e] = " "
                  /\ e + 1 <= Len(line) /\ line[e + 1] = ":"
                  /\ e + 2 <= TextEnd(line)
                  /\ \A j \in (e + 2)..TextEnd(line) : line[j] # "\n"}

\* PRIVMSG_RE.match(line) is not None
PrivmsgMatches(line) == PrivmsgStarts(line) # {}

\* m.group(1), m.group(2): ".*" is greedy, so the last possible start counts
PrivmsgGroups(line) ==
    LET k == CHOOSE x \in PrivmsgStarts(line) : \A y \in PrivmsgStarts(line) : y <= x
    IN [user |-> SubSeq(line, 2, Find(<<"!">>, line) - 1),
        message |-> SubSeq(line, ChannelEnd(line, k) + 2, TextEnd(line))]

\* self.trigger_code of the listener
TriggerCode == <<"a">>

\* lines 160-165: the line is a chat line whose text holds the trigger
IsChat(line) == Contains(<<"PRIVMSG">>, line) /\ PrivmsgMatches(line)
IsTrigger(line) ==
    /\ IsChat(line)
    /\ \E message \in {PrivmsgGroups(line).message} :
          Contains(Lower(TriggerCode), Lower(message))

(***************************************************************************)
(* TwitchListener.connect and TwitchListener.run, on the run thread.       *)
(***************************************************************************)
\* line 116 and lines 175, 182: the cap of both backoff delays
BackoffCap == 60
\* line 204: self.thread.join(timeout=5)
JoinTimeout == 5

\* the run thread exists and has not ended
ThreadAlive == lis_pc \notin {"idle", "dead"}


\* lines 198-199 without the test of line 195: a run thread is spawned at
\* every call
LisStartUnchecked ==
    /\ lis_pc # "none"
    /\ lstop_pc = "idle"
    /\ lis_pc' = "token" /\ stop_slept' = FALSE /\ stop_recv' = FALSE
    /\ UNCHANGED <<lis_running, self_backoff, run_backoff, run_sock, conn_sock,
                   conn_from, buffer, sleep_left, lis_fails, players, lstop_pc,
                   join_left, oauth_token_set, botSide, frameVars, sent, buf_socks,
                   handled, envVars>>

\* start(), lines 195-199, called by the thread that owns the listener: with
\* a run thread alive it logs and returns; else a run thread is spawned
LisStart ==
    /\ lis_pc # "none"
    /\ lstop_pc = "idle"
    /\ IF ThreadAlive
       THEN UNCHANGED <<lis_pc, stop_slept, stop_recv>>
       ELSE lis_pc' = "token" /\ stop_slept' = FALSE /\ stop_recv' = FALSE
    /\ UNCHANGED <<lis_running, self_backoff, run_backoff, run_sock, conn_sock,
                   conn_from, buffer, sleep_left, lis_fails, players, lstop_pc,
                   join_left, oauth_token_set, botSide, frameVars, sent, buf_socks,
                   handled, envVars>>

\* lines 120-122: without a token run() logs and returns
LisToken ==
    /\ lis_pc = "token"
    /\ lis_pc' = IF oauth_token_set THEN "set_running" ELSE "dead"
    /\ UNCHANGED <<lis_running, self_backoff, run_backoff, run_sock, conn_sock,
                   conn_from, buffer, sleep_left, lis_fails, players, lstop_pc, join_left, stop_slept, oauth_token_set,
                   botSide, frameVars, obsVars, envVars>>

\* lines 124-126: self.running = True; self.backoff = 1; sock = self.connect()
LisSetRunning ==
    /\ lis_pc = "set_running"
    /\ lis_running' = TRUE
    /\ self_backoff' = 1
    /\ lis_fails' = 0
    /\ conn_from' = "first"
    /\ lis_pc' = "c_loop"
    /\ UNCHANGED <<run_backoff, run_sock, conn_sock, buffer, sleep_left, players,
                   lstop_pc, join_left, stop_slept, oauth_token_set, botSide, frameVars, obsVars, envVars>>

\* connect() returns None to its caller: line 127 aborts run(); at lines 141,
\* 177, 184 the break leaves the loop for the finally block; at line 156 the
\* break leaves the inner loop only and line 170 follows
ConnReturnsNone ==
    /\ conn_sock' = 0
    /\ open_sockets' = open_sockets \ {conn_sock, run_sock}
    /\ leaked' \in Leaks({conn_sock, run_sock})
    /\ run_sock' = 0
    /\ lis_pc' = CASE conn_from = "first" -> "abort"
                   [] conn_from = "pong" -> "loop"
                   [] OTHER -> "finally"
    /\ run_backoff' = IF conn_from = "pong" THEN 1 ELSE run_backoff
    /\ UNCHANGED buffer

\* connect() returns the new socket: sock = self.connect() drops the socket
\* run() held before; lines 131-132 after the first call
ConnReturnsSock ==
    /\ run_sock' = conn_sock
    /\ conn_sock' = 0
    /\ open_sockets' = open_sockets \ {run_sock}
    /\ leaked' \in Leaks({run_sock})
    /\ lis_pc' = IF conn_from = "pong" THEN "lines" ELSE "loop"
    /\ buffer' = IF conn_from = "first" THEN <<>> ELSE buffer
    /\ run_backoff' = IF conn_from = "first" THEN 1 ELSE run_backoff

\* an exception leaves connect(): uncaught at line 126; caught by line 179 when
\* raised at lines 140 and 155; out of a handler (lines 176, 183) it reaches
\* the finally block
ConnRaises ==
    /\ conn_sock' = 0
    /\ open_sockets' = open_sockets \ {conn_sock}
    /\ leaked' \in Leaks({conn_sock})
    /\ lis_pc' = CASE conn_from = "first" -> "dead"
                   [] conn_from = "handler" -> "finally"
                   [] OTHER -> "h_log"
    /\ UNCHANGED <<run_sock, buffer, run_backoff>>

\* line 100: while self.running; line 117: return None
ConnLoop ==
    /\ lis_pc = "c_loop"
    /\ IF lis_running
       THEN /\ lis_pc' = "c_create"
            /\ UNCHANGED <<run_sock, conn_sock, buffer, run_backoff, open_sockets, leaked>>
       ELSE ConnReturnsNone
    /\ UNCHANGED <<lis_running, self_backoff, conn_from, sleep_left, lis_fails,
                   players, lstop_pc, join_left, stop_slept, oauth_token_set, botSide, frameVars, obsVars, created, received>>

\* lines 102-103: sock = socket.socket(); the socket of a failed attempt is
\* dropped
ConnCreate ==
    /\ lis_pc = "c_create"
    /\ created < MaxConnects
    /\ created' = created + 1
    /\ conn_sock' = created + 1
    /\ open_sockets' = (open_sockets \ {conn_sock}) \cup {created + 1}
    /\ leaked' \in Leaks({conn_sock})
    /\ lis_pc' = "c_connect"
    /\ sent' = [sock |-> created + 1, lines |-> <<>>]
    /\ UNCHANGED <<lis_running, self_backoff, run_backoff, run_sock, conn_from,
                   buffer, sleep_left, lis_fails, players, lstop_pc, join_left, stop_slept, oauth_token_set, botSide, frameVars,
                   buf_socks, stop_recv, handled, received>>

\* lines 104-110 with JOIN sent before NICK
ConnHandshakeSwapped ==
    /\ lis_pc \in {"c_connect", "c_pass", "c_nick", "c_join"}
    /\ \/ /\ lis_pc' = CASE lis_pc = "c_connect" -> "c_pass"
                         [] lis_pc = "c_pass" -> "c_nick"
                         [] lis_pc = "c_nick" -> "c_join"
                         [] lis_pc = "c_join" -> "c_log"
          /\ sent' = [sent EXCEPT !.lines =
                         CASE lis_pc = "c_connect" -> @
                           [] lis_pc = "c_pass" -> Append(@, HandshakeLines[1])
                           [] lis_pc = "c_nick" -> Append(@, HandshakeLines[3])
                           [] lis_pc = "c_join" -> Append(@, HandshakeLines[2])]
       \/ lis_pc' = "c_failed" /\ sent' = NoSends
    /\ UNCHANGED <<lis_running, self_backoff, run_backoff, run_sock, conn_sock,
                   conn_from, buffer, sleep_left, lis_fails, players, lstop_pc, join_left, stop_slept, oauth_token_set,
                   botSide, frameVars, buf_socks, stop_recv, handled, envVars>>

\* lines 104-110: sock.connect and the sends of PASS, NICK, JOIN; each may raise
ConnHandshake ==
    /\ lis_pc \in {"c_connect", "c_pass", "c_nick", "c_join"}
    /\ \/ /\ lis_pc' = CASE lis_pc = "c_connect" -> "c_pass"
                         [] lis_pc = "c_pass" -> "c_nick"
                         [] lis_pc = "c_nick" -> "c_join"
                         [] lis_pc = "c_join" -> "c_log"
          /\ sent' = [sent EXCEPT !.lines =
                         CASE lis_pc = "c_connect" -> @
                           [] lis_pc = "c_pass" -> Append(@, HandshakeLines[1])
                           [] lis_pc = "c_nick" -> Append(@, HandshakeLines[2])
                           [] lis_pc = "c_join" -> Append(@, HandshakeLines[3])]
       \/ lis_pc' = "c_failed" /\ sent' = NoSends
    /\ UNCHANGED <<lis_running, self_backoff, run_backoff, run_sock, conn_sock,
                   conn_from, buffer, sleep_left, lis_fails, players, lstop_pc, join_left, stop_slept, oauth_token_set,
                   botSide, frameVars, buf_socks, stop_recv, handled, envVars>>

\* lines 111-112: self.log("Connected ..."); return sock.  on_log raising is
\* caught by line 113 like a failed connect.
ConnEstablished ==
    /\ lis_pc = "c_log"
    /\ \/ ConnReturnsSock /\ lis_fails' = 0 /\ UNCHANGED sent
       \/ /\ lis_pc' = "c_failed"
          /\ sent' = NoSends
          /\ UNCHANGED <<run_sock, conn_sock, buffer, run_backoff, open_sockets, leaked,
                         lis_fails>>
    /\ UNCHANGED <<lis_running, self_backoff, conn_from, sleep_left, players,
                   lstop_pc, join_left, stop_slept, oauth_token_set, botSide, frameVars, buf_socks, stop_recv, handled,
                   created, received>>

\* lines 113-115: self.log("Connect failed ..."); time.sleep(self.backoff)
\* begins.  on_log raising here leaves connect().
ConnFailed ==
    /\ lis_pc = "c_failed"
    /\ \/ /\ lis_pc' = "c_sleep"
          /\ sleep_left' = self_backoff
          /\ UNCHANGED <<run_sock, conn_sock, buffer, run_backoff, open_sockets, leaked>>
       \/ ConnRaises /\ UNCHANGED sleep_left
    /\ UNCHANGED <<lis_running, self_backoff, conn_from, lis_fails, players,
                   lstop_pc, join_left, stop_slept, oauth_token_set, botSide, frameVars, obsVars, created, received>>

\* lines 115-116: the sleep is over; self.backoff = min(self.backoff * 2, 60)
ConnBackoff ==
    /\ lis_pc = "c_sleep"
    /\ sleep_left = 0
    /\ self_backoff' = Min(self_backoff * 2, BackoffCap)
    /\ lis_fails' = lis_fails + 1
    /\ lis_pc' = "c_loop"
    /\ UNCHANGED <<lis_running, run_backoff, run_sock, conn_sock, conn_from,
                   buffer, sleep_left, players, lstop_pc, join_left, stop_slept, oauth_token_set, botSide, frameVars, obsVars, envVars>>

\* lines 127-129: self.log("Failed to connect. Aborting."); return
LisAbort ==
    /\ lis_pc = "abort"
    /\ lis_pc' = "dead"
    /\ UNCHANGED <<lis_running, self_backoff, run_backoff, run_sock, conn_sock,
                   conn_from, buffer, sleep_left, lis_fails, players, lstop_pc, join_left, stop_slept, oauth_token_set,
                   botSide, frameVars, obsVars, envVars>>

\* line 135: while self.running
LisLoop ==
    /\ lis_pc = "loop"
    /\ lis_pc' = IF lis_running THEN "recv" ELSE "finally"
    /\ UNCHANGED <<lis_running, self_backoff, run_backoff, run_sock, conn_sock,
                   conn_from, buffer, sleep_left, lis_fails, players, lstop_pc, join_left, stop_slept, oauth_token_set,
                   botSide, frameVars, obsVars, envVars>>

\* lines 137, 145: data arrived; buffer += data.decode("utf-8", errors="ignore")
Feed(buf, data) == buf \o Decode(data)

LisRecvData ==
    /\ lis_pc = "recv"
    /\ run_sock # 0
    /\ received < MaxRecv
    /\ received' = received + 1
    /\ \E chunk \in ServerChunks : buffer' = Feed(buffer, chunk)
    /\ buf_socks' = buf_socks \cup {run_sock}
    /\ lis_pc' = "lines"
    /\ UNCHANGED <<lis_running, self_backoff, run_backoff, run_sock, conn_sock,
                   conn_from, sleep_left, lis_fails, players, lstop_pc, join_left, stop_slept, oauth_token_set, botSide, frameVars,
                   sent, stop_recv, handled, open_sockets, leaked, created>>

\* lines 137, 145 when the chunk recv returns ends inside a line: the first
\* characters of a chat line, or the rest of one
LisRecvPiece ==
    /\ lis_pc = "recv"
    /\ run_sock # 0
    /\ received < MaxRecv
    /\ received' = received + 1
    /\ \E chunk \in {Take(TriggerLine, 3), Drop(TriggerLine, 3) \o CRLF} :
          buffer' = Feed(buffer, chunk)
    /\ buf_socks' = buf_socks \cup {run_sock}
    /\ lis_pc' = "lines"
    /\ UNCHANGED <<lis_running, self_backoff, run_backoff, run_sock, conn_sock,
                   conn_from, sleep_left, lis_fails, players, lstop_pc, join_left, stop_slept, oauth_token_set, botSide, frameVars,
                   sent, stop_recv, handled, open_sockets, leaked, created>>

\* lines 138-140: zero bytes: log, then sock = self.connect(); on_log raising
\* is caught by line 179
LisRecvClosed ==
    /\ lis_pc = "recv"
    /\ run_sock # 0
    /\ \/ lis_pc' = "c_loop" /\ conn_from' = "closed"
       \/ lis_pc' = "h_log" /\ UNCHANGED conn_from
    /\ UNCHANGED <<lis_running, self_backoff, run_backoff, run_sock, conn_sock,
                   buffer, sleep_left, lis_fails, players, lstop_pc, join_left, stop_slept, oauth_token_set, botSide, frameVars, obsVars, envVars>>

\* line 137: nothing arrived within the 120 seconds of line 103: recv raises
\* socket.timeout
LisRecvTimeout ==
    /\ lis_pc = "recv"
    /\ run_sock # 0
    /\ lis_pc' = "timeout"
    /\ UNCHANGED <<lis_running, self_backoff, run_backoff, run_sock, conn_sock,
                   conn_from, buffer, sleep_left, lis_fails, players, lstop_pc, join_left, stop_slept, oauth_token_set,
                   botSide, frameVars, obsVars, envVars>>

\* lines 172-174: except (socket.timeout, OSError) catches the timeout: log,
\* and time.sleep(backoff) begins; on_log raising leaves the loop for the
\* finally block
LisTimeoutHandler ==
    /\ lis_pc = "timeout"
    /\ \/ lis_pc' = "h_sleep" /\ sleep_left' = run_backoff
       \/ lis_pc' = "finally" /\ UNCHANGED sleep_left
    /\ UNCHANGED <<lis_running, self_backoff, run_backoff, run_sock, conn_sock,
                   conn_from, buffer, lis_fails, players, lstop_pc, join_left, stop_slept, oauth_token_set, botSide, frameVars,
                   obsVars, envVars>>

\* lines 172, 179: recv raised another OSError (recv on None raises
\* AttributeError)
LisRecvError ==
    /\ lis_pc = "recv"
    /\ lis_pc' = "h_log"
    /\ UNCHANGED <<lis_running, self_backoff, run_backoff, run_sock, conn_sock,
                   conn_from, buffer, sleep_left, lis_fails, players, lstop_pc, join_left, stop_slept, oauth_token_set,
                   botSide, frameVars, obsVars, envVars>>

\* line 147: line, buffer = buffer.split("\r\n", 1)
NextLine == SplitOnce(CRLF, buffer)[1]
RestBuffer == SplitOnce(CRLF, buffer)[2]

\* where the characters left in the buffer came from
RestSocks == IF RestBuffer = <<>> THEN {} ELSE buf_socks

\* lines 146, 170: no complete line is left: backoff = 1, next iteration
LisLinesDone ==
    /\ lis_pc = "lines"
    /\ ~Contains(CRLF, buffer)
    /\ run_backoff' = 1
    /\ lis_pc' = "loop"
    /\ handled' = Unhandled
    /\ UNCHANGED <<lis_running, self_backoff, run_sock, conn_sock, conn_from,
                   buffer, sleep_left, lis_fails, players, lstop_pc, join_left, stop_slept, oauth_token_set, botSide, frameVars,
                   sent, buf_socks, stop_recv, envVars>>

\* lines 148-149 and the lines no branch takes: empty, or neither PING nor chat
LisLineSkip ==
    /\ lis_pc = "lines"
    /\ Contains(CRLF, buffer)
    /\ \E line \in {NextLine} :
          \/ line = <<>>
          \/ ~StartsWith(line, "PING") /\ ~IsChat(line)
    /\ buffer' = RestBuffer
    /\ buf_socks' = RestSocks
    /\ handled' = Unhandled
    /\ UNCHANGED <<lis_pc, lis_running, self_backoff, run_backoff, run_sock,
                   conn_sock, conn_from, sleep_left, lis_fails, players, lstop_pc, join_left, stop_slept, oauth_token_set,
                   botSide, frameVars, sent, stop_recv, envVars>>

\* lines 151-158: PING: the PONG is sent, or the send raises and
\* sock = self.connect() follows
LisLinePing ==
    /\ lis_pc = "lines"
    /\ Contains(CRLF, buffer)
    /\ StartsWith(NextLine, "PING")
    /\ buffer' = RestBuffer
    /\ buf_socks' = RestSocks
    /\ \/ /\ run_sock # 0
          /\ handled' = [Unhandled EXCEPT !.pongs =
                            <<[sock |-> run_sock, line |-> PongLine]>>]
          /\ UNCHANGED <<lis_pc, conn_from>>
       \/ lis_pc' = "c_loop" /\ conn_from' = "pong" /\ handled' = Unhandled
    /\ UNCHANGED <<lis_running, self_backoff, run_backoff, run_sock, conn_sock,
                   sleep_left, lis_fails, players, lstop_pc, join_left, stop_slept, oauth_token_set, botSide, frameVars,
                   sent, stop_recv, envVars>>

\* line 168: threading.Thread(target=self.play_sound, daemon=True).start()
StartPlayer(ps) ==
    [ps EXCEPT !.start = @ + 1, !.late = @ \/ ps.failed > 0]

\* lines 160-168: a chat line: logged; with the trigger in its text, logged
\* again, on_trigger called and then the playback thread started.  on_log
\* raising (line 164 or 166) or on_trigger raising (line 167) is caught by
\* line 179.
LisLineChat ==
    /\ lis_pc = "lines"
    /\ Contains(CRLF, buffer)
    /\ buffer' = RestBuffer
    /\ buf_socks' = RestSocks
    /\ \E line \in {NextLine} :
          /\ ~StartsWith(line, "PING")
          /\ IsChat(line)
          /\ \/ /\ players' = IF IsTrigger(line) THEN StartPlayer(players) ELSE players
                /\ handled' = [Unhandled EXCEPT !.calls =
                                  IF IsTrigger(line) THEN <<PrivmsgGroups(line)>>
                                                     ELSE <<>>]
                /\ UNCHANGED lis_pc
             \/ lis_pc' = "h_log" /\ handled' = Unhandled /\ UNCHANGED players
             \/ /\ IsTrigger(line)
                /\ handled' = [Unhandled EXCEPT !.calls = <<PrivmsgGroups(line)>>]
                /\ lis_pc' = "h_log"
                /\ UNCHANGED players
    /\ UNCHANGED <<lis_running, self_backoff, run_backoff, run_sock, conn_sock,
                   conn_from, sleep_left, lis_fails, lstop_pc, join_left, stop_slept, oauth_token_set, botSide, frameVars,
                   sent, stop_recv, envVars>>

\* lines 173-174, 180-181: the handler logs and time.sleep(backoff) begins;
\* on_log raising here leaves the loop for the finally block
LisHandler ==
    /\ lis_pc = "h_log"
    /\ \/ lis_pc' = "h_sleep" /\ sleep_left' = run_backoff
       \/ lis_pc' = "finally" /\ UNCHANGED sleep_left
    /\ handled' = Unhandled
    /\ UNCHANGED <<lis_running, self_backoff, run_backoff, run_sock, conn_sock,
                   conn_from, buffer, lis_fails, players, lstop_pc, join_left, stop_slept, oauth_token_set, botSide, frameVars,
                   sent, buf_socks, stop_recv, envVars>>

\* lines 174-176, 181-183: the sleep is over; backoff doubles;
\* sock = self.connect()
LisHandlerReconnect ==
    /\ lis_pc = "h_sleep"
    /\ sleep_left = 0
    /\ run_backoff' = Min(run_backoff * 2, BackoffCap)
    /\ conn_from' = "handler"
    /\ lis_pc' = "c_loop"
    /\ UNCHANGED <<lis_running, self_backoff, run_sock, conn_sock, buffer,
                   sleep_left, lis_fails, players, lstop_pc, join_left, stop_slept, oauth_token_set, botSide, frameVars, obsVars, envVars>>

\* lines 186-190: finally: sock.close(); on None it raises and is swallowed
LisFinally ==
    /\ lis_pc = "finally"
    /\ open_sockets' = open_sockets \ {run_sock}
    /\ UNCHANGED leaked
    /\ lis_pc' = "f_log"
    /\ UNCHANGED <<lis_running, self_backoff, run_backoff, run_sock, conn_sock,
                   conn_from, buffer, sleep_left, lis_fails, players, lstop_pc, join_left, stop_slept, oauth_token_set,
                   botSide, frameVars, obsVars, created, received>>

\* lines 191-192: self.log("Listener stopped."); self.running = False.
\* on_log raising ends the thread before line 192.
LisStopped ==
    /\ lis_pc = "f_log"
    /\ lis_pc' = "dead"
    /\ \/ lis_running' = FALSE
       \/ UNCHANGED lis_running
    /\ UNCHANGED <<self_backoff, run_backoff, run_sock, conn_sock, conn_from,
                   buffer, sleep_left, lis_fails, players, lstop_pc, join_left, stop_slept, oauth_token_set, botSide, frameVars, obsVars, envVars>>


(***************************************************************************)
(* TwitchListener.play_sound on its own thread, stop(), and time.          *)
(***************************************************************************)
playerFrame == <<lis_pc, lis_running, self_backoff, run_backoff, run_sock,
                 conn_sock, conn_from, buffer, sleep_left, lis_fails, lstop_pc, join_left, stop_slept, oauth_token_set,
                 botSide, frameVars, obsVars, envVars>>

\* lines 89-95: a started thread finds the file missing or its player raises,
\* or the sound plays and the thread ends
PlayerPlay ==
    /\ players.start > 0
    /\ \/ players' = [players EXCEPT !.start = @ - 1, !.failing = @ + 1]
       \/ players' = [players EXCEPT !.start = @ - 1]
    /\ UNCHANGED playerFrame

\* lines 90-92 and 96-97 without the self.log calls
PlayerFailSilent ==
    /\ players.failing > 0
    /\ players' = [players EXCEPT !.failing = @ - 1, !.failed = @ + 1]
    /\ UNCHANGED playerFrame

\* lines 90-92 and 96-97: self.log("Sound file not found ...") or
\* self.log("Failed to play sound ..."), then the thread ends
PlayerFail ==
    /\ players.failing > 0
    /\ players' = [players EXCEPT !.failing = @ - 1, !.failed = @ + 1,
                                  !.logged = @ + 1]
    /\ UNCHANGED playerFrame

\* lines 201-204: stop(): self.running = False, then join(timeout=5) when a
\* thread was ever started
LisStopCall ==
    /\ lis_pc # "none"
    /\ lstop_pc = "idle"
    /\ lstop_pc' = "set"
    /\ UNCHANGED <<lis_pc, lis_running, self_backoff, run_backoff, run_sock,
                   conn_sock, conn_from, buffer, sleep_left, lis_fails, players,
                   join_left, stop_slept, oauth_token_set, botSide, frameVars, obsVars, envVars>>

LisStopSet ==
    /\ lstop_pc = "set"
    /\ lis_running' = FALSE
    /\ stop_slept' = (lis_pc = "c_sleep" /\ sleep_left > 0)
    /\ stop_recv' = (lis_pc = "recv")
    /\ IF lis_pc = "idle"
       THEN lstop_pc' = "idle" /\ UNCHANGED join_left
       ELSE lstop_pc' = "join" /\ join_left' = JoinTimeout
    /\ UNCHANGED <<lis_pc, self_backoff, run_backoff, run_sock, conn_sock,
                   conn_from, buffer, sleep_left, lis_fails, players,
                   oauth_token_set, botSide, frameVars, sent, buf_socks,
                   handled, envVars>>

\* join returns when the thread has ended or the timeout is over
LisStopJoined ==
    /\ lstop_pc = "join"
    /\ lis_pc = "dead" \/ join_left = 0
    /\ lstop_pc' = "idle"
    /\ UNCHANGED <<lis_pc, lis_running, self_backoff, run_backoff, run_sock,
                   conn_sock, conn_from, buffer, sleep_left, lis_fails, players,
                   join_left, stop_slept, oauth_token_set, botSide, frameVars, obsVars, envVars>>

LisStop == LisStopCall \/ LisStopSet \/ LisStopJoined

\* the run thread sleeps in time.sleep (lines 115, 174, 181)
Sleeping == lis_pc \in {"c_sleep", "h_sleep"} /\ sleep_left > 0
\* the stopping thread waits in join
Joining == lstop_pc = "join" /\ join_left > 0 /\ lis_pc # "dead"

\* one second passes: only when every thread that can run is waiting, and a
\* sleep or a join is counting
Tick ==
    /\ Sleeping \/ Joining
    /\ Sleeping \/ lis_pc \in {"idle", "dead", "recv", "c_connect"}
    /\ Joining \/ lstop_pc = "idle"
    /\ sleep_left' = IF Sleeping THEN sleep_left - 1 ELSE sleep_left
    /\ join_left' = IF Joining THEN join_left - 1 ELSE join_left
    /\ UNCHANGED <<lis_pc, lis_running, self_backoff, run_backoff, run_sock,
                   conn_sock, conn_from, buffer, lis_fails, players, lstop_pc,
                   stop_slept, oauth_token_set, botSide, frameVars, obsVars, envVars>>

\* no TwitchBot exists in a process that runs the listener
NoBot ==
    /\ bot_pc = "none"
    /\ bot_running = FALSE
    /\ bot_connected = FALSE
    /\ bot_socket = 0
    /\ reconnect_delay = DefaultReconnectDelay
    /\ max_reconnect_delay = DefaultMaxReconnectDelay
    /\ current_reconnect_delay = DefaultReconnectDelay
    /\ bot_msgs = <<>>
    /\ bot_i = 0
    /\ bot_lost = FALSE
    /\ stop_pc = "idle"
    /\ stop_called = FALSE
    /\ config_complete = TRUE
    /\ triggers = DefaultTriggers
    /\ audio_initialized = TRUE
    /\ audio_threads = <<>>
    /\ audio_lock = FALSE
    /\ scan = NoScan
    /\ run_cfg = [complete |-> FALSE, table |-> <<>>]
    /\ save_pc = "idle"
    /\ gui_running = FALSE
    /\ orphans = 0

\* TwitchListener.__init__, lines 29-45
ListenerInit ==
    /\ NoBot
    /\ NoFrame
    /\ NothingObserved
    /\ lis_pc = "idle"
    /\ lis_running = FALSE
    /\ self_backoff = 1
    /\ run_backoff = 1
    /\ run_sock = 0
    /\ conn_sock = 0
    /\ conn_from = "first"
    /\ buffer = <<>>
    /\ sleep_left = 0
    /\ lis_fails = 0
    /\ players = NoPlayers
    /\ lstop_pc = "idle"
    /\ join_left = 0
    /\ stop_slept = FALSE
    /\ oauth_token_set \in BOOLEAN
    /\ open_sockets = {}
    /\ leaked = FALSE
    /\ created = 0
    /\ received = 0


\* the listener that is started and never stopped: receiving, framing,
\* dispatching, playing, reconnecting
\* (connect() returns None only after stop(), so LisAbort has no part in it)
DispatchNext ==
    \/ LisStart \/ LisToken \/ LisSetRunning
    \/ ConnLoop \/ ConnCreate \/ ConnHandshake \/ ConnEstablished \/ ConnFailed
    \/ ConnBackoff
    \/ LisLoop \/ LisRecvData \/ LisRecvClosed \/ LisRecvError
    \/ LisRecvTimeout \/ LisTimeoutHandler
    \/ LisLinesDone \/ LisLineSkip \/ LisLinePing \/ LisLineChat
    \/ LisHandler \/ LisHandlerReconnect \/ LisFinally \/ LisStopped
    \/ Tick \/ PlayerPlay \/ PlayerFail

SpecDispatch == ListenerInit /\ [][DispatchNext]_vars

\* the listener that is started and never stopped, with a server whose
\* chunks may end inside a line
SpecPieces == ListenerInit /\ [][DispatchNext \/ LisRecvPiece]_vars

\* connecting, failing, backing off, losing the connection, stopping: the
\* listener with a server that never sends a line
LifecycleNext ==
    \/ LisStart \/ LisToken \/ LisSetRunning
    \/ ConnLoop \/ ConnCreate \/ ConnHandshake \/ ConnEstablished \/ ConnFailed
    \/ ConnBackoff
    \/ LisAbort \/ LisLoop \/ LisRecvClosed \/ LisRecvError
    \/ LisRecvTimeout \/ LisTimeoutHandler
    \/ LisHandler \/ LisHandlerReconnect \/ LisFinally \/ LisStopped
    \/ LisStop \/ Tick

SpecLifecycle == ListenerInit /\ [][LifecycleNext]_vars

\* the listener with start() and stop() and a server that sends lines; the
\* playback threads it starts are not followed
SpecListener ==
    ListenerInit /\ [][LifecycleNext \/ LisRecvData \/ LisLinesDone
                         \/ LisLineSkip \/ LisLinePing \/ LisLineChat]_vars

\* either program with the calls of its owner: the TwitchBot with stop(), or
\* the TwitchListener with start() and stop() and a server that sends no line
SpecControl == (BotInit \/ ListenerInit) /\ [][BotNext \/ LifecycleNext]_vars

\* either program: the TwitchBot, or the TwitchListener started and left running
Spec == (BotInit \/ ListenerInit) /\ [][BotNext \/ DispatchNext]_vars

(***************************************************************************)
(* Line framing of both programs, on one byte stream cut into chunks.      *)
(***************************************************************************)
\* twitch_listener.py lines 146-149: the non-empty lines the inner loop takes
\* out of the buffer
RECURSIVE ListenerLines(_)
ListenerLines(buf) ==
    IF ~Contains(CRLF, buf) THEN <<>>
    ELSE LET line == SplitOnce(CRLF, buf)[1]
             rest == SplitOnce(CRLF, buf)[2]
         IN (IF line = <<>> THEN <<>> ELSE <<line>>) \o ListenerLines(rest)

\* what the inner loop leaves in the buffer
RECURSIVE ListenerRest(_)
ListenerRest(buf) ==
    IF ~Contains(CRLF, buf) THEN buf ELSE ListenerRest(SplitOnce(CRLF, buf)[2])

\* twitch_sound_alert.py lines 242, 250-252: the messages of one response
BotLines(data) == SelectSeq(Split(CRLF, Decode(data)), LAMBDA m : m # <<>>)

ByteAlphabet == {"a", "\r", "\n", "xC3", "xA9"}

FrameInit ==
    /\ NoBot
    /\ NoListener
    /\ open_sockets = {}
    /\ leaked = FALSE
    /\ created = 0
    /\ received = 0
    /\ wire \in Strings(ByteAlphabet, MaxStream)
    /\ wire_pos = 0
    /\ lis_out = <<>>
    /\ bot_out = <<>>
    /\ NothingObserved

\* one recv returns the next n bytes of the stream to both programs
FrameRecv ==
    /\ wire_pos < Len(wire)
    /\ \E n \in 1..(Len(wire) - wire_pos) :
          LET data == SubSeq(wire, wire_pos + 1, wire_pos + n)
          IN /\ wire_pos' = wire_pos + n
             /\ lis_out' = lis_out \o ListenerLines(Feed(buffer, data))
             /\ buffer' = ListenerRest(Feed(buffer, data))
             /\ bot_out' = bot_out \o BotLines(data)
    /\ UNCHANGED <<wire, botSide, envVars, obsVars, lis_pc, lis_running,
                   self_backoff, run_backoff, run_sock, conn_sock, conn_from,
                   sleep_left, lis_fails, players, lstop_pc, join_left, stop_slept, oauth_token_set>>

SpecFrame == FrameInit /\ [][FrameRecv]_vars

(***************************************************************************)
(* The claims.                                                             *)
(***************************************************************************)

\* C1: TwitchBot holds at most one open socket: whenever connect() creates a
\* socket, every socket the bot created earlier has been closed.
C1_EarlierSocketsClosed ==
    [][created' # created => (open_sockets = {} /\ ~leaked)]_vars

\* what the loops do with a framed line: the for loop of TwitchBot.run, lines
\* 250-252, and the inner while loop of TwitchListener.run, lines 146-168
BotHandleStep == BotNextMessage \/ BotHandlePing \/ BotHandleChat
LisLineStep == LisLinesDone \/ LisLineSkip \/ LisLinePing \/ LisLineChat

\* C2: the receive loops never wait on a playback: whatever the playbacks
\* started so far are doing (waiting for AudioPlayer.lock, playing, never
\* finishing), the loop that holds framed lines can take its next step on
\* them, a PING included.
C2_LoopNeverWaitsOnPlayback ==
    /\ (bot_pc = "handle" /\ audio_threads # <<>>) => ENABLED BotHandleStep
    /\ (lis_pc = "lines" /\ players.start + players.failing > 0)
          => ENABLED LisLineStep

\* C2 witness: the bot is about to answer a PING while one playback holds the
\* lock and another waits for it
C2_Witness ==
    /\ bot_pc = "handle"
    /\ bot_i >= 1 /\ bot_i < Len(bot_msgs)
    /\ StartsWith(BotMessage, "PING")
    /\ \E i, j \in 1..Len(audio_threads) :
          audio_threads[i].st = "play" /\ audio_threads[j].st = "wait"

RECURSIVE Pow2(_)
Pow2(n) == IF n = 0 THEN 1 ELSE 2 * Pow2(n - 1)

\* C3: after k failed connection attempts in a row, counted from the start of
\* run() or from the last successful handshake, self.backoff is min(2^k, 60);
\* so it is 1 again after a successful handshake.
C3_BackoffOfFailures ==
    lis_pc \notin {"none", "idle"} => self_backoff = Min(Pow2(lis_fails), BackoffCap)

\* C4 as stated: for every configured pair of delays,
\* reconnect_delay <= current_reconnect_delay <= max_reconnect_delay.
C4_DelayInRange ==
    /\ reconnect_delay <= current_reconnect_delay
    /\ current_reconnect_delay <= max_reconnect_delay

\* C4 as amended: for every configured pair with reconnect_delay <=
\* max_reconnect_delay, in every reachable state
\* reconnect_delay <= current_reconnect_delay <= max_reconnect_delay.
C4_DelayInRangeWhenOrdered ==
    reconnect_delay <= max_reconnect_delay => C4_DelayInRange

\* C4 witness: two failed attempts have doubled the delay up to the maximum,
\* which cut the second doubling short
C4_Witness ==
    /\ bot_pc = "loop"
    /\ created >= 2
    /\ reconnect_delay < current_reconnect_delay
    /\ current_reconnect_delay = max_reconnect_delay
    /\ current_reconnect_delay # 2 * reconnect_delay

\* C5: after a zero-byte read the bot leaves the connected state, the delay is
\* not reset by the loss, and connect() is called again only after the loop has
\* slept for the current delay.
C5_SleepBeforeReconnect == bot_pc = "create" => ~bot_lost

\* C6: when stop() is called while the run thread sleeps in the backoff of a
\* failed connect, the run thread has ended by the time stop() returns.
C6_StopEndsSleepingLoop == (lstop_pc = "idle" /\ stop_slept) => lis_pc = "dead"

\* what the thread of TwitchListener.run reads and writes
runLoopVars == <<lis_pc, lis_running, self_backoff, run_backoff, run_sock,
                 conn_sock, conn_from, buffer, sleep_left>>

\* every playback that failed and ended has reported through on_log
FailuresLogged == players.logged = players.failed

\* after a failed playback the loop still takes its next step on framed lines
LoopGoesOn == (lis_pc = "lines" /\ players.failed > 0) => ENABLED LisLineStep

\* C7: a playback that fails (file missing, or the backend raises) reports
\* the failure through on_log; no step of a playback thread changes anything
\* of the run loop; and the loop goes on processing lines after the failure.
C7_FailureLoggedAndContained ==
    /\ [](FailuresLogged /\ LoopGoesOn)
    /\ [][players'.start <= players.start /\ players' # players
             => UNCHANGED runLoopVars]_vars

\* C7 witness: a playback failed and was reported, and a playback was started
\* by a later line
C7_Witness == players.failed >= 1 /\ players.logged >= 1 /\ players.late

\* the byte stream has been delivered completely
Delivered == wire # <<>> /\ wire_pos = Len(wire)

\* C8: the complete lines TwitchListener.run processes are those of the
\* stream received in one piece, however the stream is cut into chunks.
C8_ListenerChunkingInvariant ==
    Delivered => lis_out = ListenerLines(Feed(<<>>, wire))

\* C9: the messages TwitchBot.run handles are those of the stream received in
\* one piece, however the stream is cut into chunks.
C9_BotChunkingInvariant == Delivered => bot_out = BotLines(wire)

\* the triggers of the table whose lowercased form is a substring of the
\* lowercased text
Hits(text) ==
    {i \in 1..Len(triggers) : Contains(Lower(triggers[i].trigger), Lower(text))}
First(S) == CHOOSE i \in S : \A j \in S : i <= j

\* the text of the chat message of SpecMatch: what follows the first ':' after
\* the command and the channel
MessageText == Drop(bot_msgs[1], Len(ChatPrefix))

\* handle_message has returned from the chat message
Handled == bot_pc = "handle" /\ bot_i >= 1

\* at most one playback was started, of the sound of the first trigger hitting
\* `text`, and none when no trigger hits it
FirstHitPlays(text) ==
    /\ Len(audio_threads) <= 1
    /\ audio_threads # <<>> =>
          /\ Hits(text) # {}
          /\ audio_threads[1].file = triggers[First(Hits(text))].sound
    /\ Hits(text) = {} => audio_threads = <<>>

LisPingStep ==
    /\ lis_pc = "lines" /\ Contains(CRLF, buffer)
    /\ StartsWith(NextLine, "PING")
    /\ buffer' = RestBuffer
BotPingStep ==
    /\ bot_pc = "handle" /\ bot_i < Len(bot_msgs)
    /\ BotMessage # <<>> /\ StartsWith(BotMessage, "PING")
    /\ (bot_i' # bot_i \/ bot_pc' # bot_pc)

\* the reply that went out, if the send did not fail, is one PONG line on the
\* only connection the characters being handled came from
OnePongOn(reply, socks) ==
    \/ reply.pongs = <<>>
    \/ /\ Len(reply.pongs) = 1
       /\ reply.pongs[1].line[1] = "PONG"
       /\ socks = {reply.pongs[1].sock}

\* C11: every line that begins with PING is handled as a keep-alive by
\* TwitchListener.run and by TwitchBot.handle_message: within the step that
\* handles it, before the next line is taken, one PONG goes out on the
\* connection the line was received on (or the send fails), on_trigger is not
\* called and no playback is started.
C11_PingAnsweredOnItsConnection ==
    [][/\ LisPingStep =>
            /\ OnePongOn(handled', buf_socks)
            /\ handled'.calls = <<>>
            /\ players' = players
       /\ BotPingStep =>
            /\ OnePongOn(handled', buf_socks)
            /\ audio_threads' = audio_threads]_vars

(***************************************************************************)
(* The chat-line pattern on lines of the chat form.                        *)
(***************************************************************************)
\* the texts made of at most n of these pieces
TextPieces ==
    {<<"a">>, <<"x">>, <<":">>, <<" ">>, <<" ", "PRIVMSG", " ", "#", "x", " ", ":">>}
RECURSIVE Texts(_)
Texts(n) ==
    IF n = 0 THEN {<<>>}
    ELSE Texts(n - 1) \cup {t \o p : t \in Texts(n - 1), p \in TextPieces}

\* ":<sender>!<prefix> PRIVMSG #<channel> :<text>"
ChatLines ==
    {<<":">> \o who \o <<"!">> \o prefix
        \o <<" ", "PRIVMSG", " ", "#", "c", " ", ":">> \o text :
        who \in {<<"u">>, <<"a", "b">>},
        prefix \in {<<"u">>, <<"u", "!", "h">>},
        text \in Texts(MaxPieces)}

\* a connected listener whose recv has just returned one chat line
ParseInit ==
    /\ NoBot
    /\ NoFrame
    /\ lis_pc = "lines"
    /\ lis_running = TRUE
    /\ self_backoff = 1
    /\ run_backoff = 1
    /\ run_sock = 1
    /\ conn_sock = 0
    /\ conn_from = "first"
    /\ \E line \in ChatLines : buffer = Feed(<<>>, line \o CRLF)
    /\ sleep_left = 0
    /\ lis_fails = 0
    /\ players = NoPlayers
    /\ lstop_pc = "idle"
    /\ join_left = 0
    /\ stop_slept = FALSE
    /\ oauth_token_set = TRUE
    /\ open_sockets = {1}
    /\ leaked = FALSE
    /\ created = 1
    /\ received = 1
    /\ sent = [sock |-> 1, lines |-> HandshakeLines]
    /\ buf_socks = {1}
    /\ stop_recv = FALSE
    /\ handled = Unhandled

SpecParse == ParseInit /\ [][LisLineChat \/ LisLineSkip \/ LisLinesDone]_vars

\* the sender and the text of a line of the chat form: between the leading
\* ':' and the first '!'; after the first ':' behind the first " PRIVMSG #"
FormSender(line) == SubSeq(line, 2, Find(<<"!">>, line) - 1)
FormText(line) ==
    SplitOnce(<<":">>, Drop(line, Find(<<" ", "PRIVMSG", " ", "#">>, line) + 3))[2]
IsForm(line) ==
    /\ Len(line) >= 3 /\ line[1] = ":"
    /\ Find(<<"!">>, line) >= 3
    /\ Find(<<" ", "PRIVMSG", " ", "#">>, line) > Find(<<"!">>, line)
    /\ FormText(line) # <<>>

\* C12: for every line of the form ":<sender>!<prefix> PRIVMSG #<channel>
\* :<text>" PRIVMSG_RE matches and yields the sender (up to the first '!') and
\* the whole text after the first ':' behind the command and the channel,
\* later ':' and later " PRIVMSG #x :" included.
C12_ParserYieldsSenderAndText ==
    (lis_pc = "lines" /\ Contains(CRLF, buffer)) =>
        \A line \in {NextLine} :
            IsForm(line) =>
                /\ PrivmsgMatches(line)
                /\ PrivmsgGroups(line) =
                      [user |-> FormSender(line), message |-> FormText(line)]

\* the same, for the lines whose text holds no second " PRIVMSG #"
C12_ParserOnPlainText ==
    (lis_pc = "lines" /\ Contains(CRLF, buffer)) =>
        \A line \in {NextLine} :
            (IsForm(line) /\ Cardinality(Occurrences(<<" ", "PRIVMSG", " ", "#">>, line)) = 1) =>
                /\ PrivmsgMatches(line)
                /\ PrivmsgGroups(line) =
                      [user |-> FormSender(line), message |-> FormText(line)]

\* where connect() of the bot and connect() of the listener are executing
BotConnecting ==
    bot_pc \in {"create", "connect", "config", "pass", "nick", "join",
                "established", "failed"}
LisConnecting ==
    lis_pc \in {"c_loop", "c_create", "c_connect", "c_pass", "c_nick", "c_join",
                "c_log", "c_failed", "c_sleep"}

\* the three handshake lines, and nothing else, went out on socket s in order
ShookHands(s) == s # 0 /\ sent = [sock |-> s, lines |-> HandshakeLines]

\* a handshake send fails
BotSendFails == bot_pc \in {"pass", "nick", "join"} /\ bot_pc' = "failed"
LisSendFails == lis_pc \in {"c_pass", "c_nick", "c_join"} /\ lis_pc' = "c_failed"

\* C13: on a connection the bot marks connected or receives on, and on a
\* connection run() of the listener holds while it loops, receives and takes
\* lines, exactly PASS, NICK, JOIN were sent, in this order; a handshake send
\* that fails leaves the bot not connected in connect(), and the listener in
\* connect() with the socket not handed to run().
C13_HandshakeBeforeUse ==
    /\ []( ((bot_connected \/ bot_pc \in {"recv", "handle"})
                => ShookHands(bot_socket))
          /\ ((lis_pc \in {"loop", "recv", "lines"} /\ run_sock # 0)
                => ShookHands(run_sock)) )
    /\ [][ (BotSendFails => (BotConnecting' /\ ~bot_connected'))
          /\ (LisSendFails => (LisConnecting' /\ run_sock' = run_sock
                                 /\ run_sock' # conn_sock')) ]_vars

\* the listener receives lines on its second socket, the bot on its first
C13_Witness ==
    \/ lis_pc = "lines" /\ buffer # <<>> /\ run_sock = 2 /\ created = 2
    \/ bot_pc = "handle" /\ bot_connected /\ bot_msgs # <<>> /\ bot_socket = 2

\* a run thread is spawned: run() is at its first statement and was not before
Spawned == lis_pc' = "token" /\ lis_pc # "token"

\* C14: start() spawns a run thread only when no run thread of the listener
\* is alive, whatever start() and stop() calls came before: two run threads
\* of one listener are never alive together.
C14_StartOnlyWhenStopped == [][Spawned => ~ThreadAlive]_vars

\* stop() has returned after its join timed out, the run thread is still
\* alive in recv, and start() finds it alive
C14_Witness ==
    /\ ThreadAlive /\ lis_pc = "recv"
    /\ lstop_pc = "idle" /\ stop_recv /\ join_left = 0

\* the stopped state: no live run loop, running False, no open socket
BotStopped ==
    /\ bot_pc \in {"start", "done", "crashed"}
    /\ ~bot_running /\ ~bot_connected
    /\ bot_socket \notin open_sockets
LisIsStopped ==
    /\ lis_pc \in {"idle", "dead"}
    /\ ~lis_running
    /\ {run_sock, conn_sock} \cap open_sockets = {}

\* C15: every step of stop() taken in the stopped state (the instance never
\* ran, or ran and was stopped before) leaves the state as it was, for the
\* bot and for the listener: running False, not connected, no socket opened
\* or closed, no run loop started.
C15_StopWhenStoppedIsNoOp ==
    [][ ((stop_pc' # stop_pc /\ BotStopped) =>
             (BotStopped' /\ UNCHANGED <<bot_pc, open_sockets, leaked, bot_socket>>))
      /\ ((lstop_pc' # lstop_pc /\ LisIsStopped) =>
             (LisIsStopped' /\ UNCHANGED <<lis_pc, open_sockets, leaked, run_sock>>))
      ]_vars

\* a second stop() begins on a bot whose run loop has ended, or on a
\* listener whose run thread has ended after it had connected
C15_Witness ==
    \/ bot_pc = "done" /\ stop_pc = "running" /\ BotStopped /\ created > 0
    \/ lis_pc = "dead" /\ lstop_pc = "set" /\ LisIsStopped /\ run_sock # 0

\* run() has returned and left the socket closed and connected False
BotEnded ==
    /\ bot_pc = "done"
    /\ ~bot_connected
    /\ bot_socket \notin open_sockets
\* the run thread is about to create one socket more than MaxSockets
BotCapped == bot_pc = "create" /\ created = MaxSockets

\* C16: once stop() has been called, run() on its own thread eventually
\* returns with the socket closed and connected False, wherever the run
\* thread was when stop() ran, its first statement included.
C16_StopEndsRun == stop_called ~> (BotEnded \/ BotCapped)

\* the same for a stop() that clears the flag after run() has set it
C16_StopAfterStartEndsRun ==
    (stop_called /\ stop_pc = "running" /\ bot_pc # "start")
        ~> (BotEnded \/ BotCapped)

\* C17: when stop() was called while run() was connected and blocked in
\* recv, then once stop() has returned the run thread has ended, running is
\* False and the socket run() held is closed.
C17_StopInRecvStops ==
    (lstop_pc = "idle" /\ stop_recv) =>
        (lis_pc = "dead" /\ ~lis_running /\ run_sock \notin open_sockets)

\* C18: once run() has connected it leaves its loop (for the finally block,
\* and then returns) only after stop() has cleared running, whatever lines,
\* transport errors, playback failures and callback exceptions occur.
C18_OnlyStopEndsRun == lis_pc \in {"finally", "f_log"} => ~lis_running

\* a step of run() that takes a chat line out of the buffer
LisChatStep ==
    /\ lis_pc = "lines" /\ Contains(CRLF, buffer)
    /\ ~StartsWith(NextLine, "PING") /\ IsChat(NextLine)
    /\ buffer' = RestBuffer

\* C19: whatever on_log and on_trigger do while a chat line is processed, an
\* exception included, run() stays at its loop over the lines with the
\* connection it has (no reconnect, no backoff sleep), and the playback
\* thread of a line that holds the trigger is started.
C19_CallbackFaultContained ==
    [][LisChatStep =>
          /\ lis_pc' = "lines"
          /\ run_sock' = run_sock
          /\ IsTrigger(NextLine) => players'.start = players.start + 1]_vars

\* the text of a chat line as the spec defines it holds the trigger
TextHasTrigger(line) == Contains(Lower(TriggerCode), Lower(FormText(line)))

\* C20: for every chat line whose text holds the trigger phrase, the step of
\* run() that processes it (with callbacks that return) calls
\* on_trigger(sender, text) exactly once and then starts the playback thread;
\* for every other line on_trigger is not called.
C20_OnTriggerOncePerMatch ==
    [][(LisChatStep /\ lis_pc' = "lines") =>
          \A line \in {NextLine} :
             IF TextHasTrigger(line)
             THEN /\ handled'.calls =
                        <<[user |-> FormSender(line), message |-> FormText(line)]>>
                  /\ players'.start = players.start + 1
             ELSE /\ handled'.calls = <<>>
                  /\ players' = players]_vars

\* the same, for the sender and the text PRIVMSG_RE yields
C20_OnTriggerOncePerParsedMatch ==
    [][(LisChatStep /\ lis_pc' = "lines") =>
          \A line \in {NextLine} :
             IF IsTrigger(line)
             THEN /\ handled'.calls = <<PrivmsgGroups(line)>>
                  /\ players'.start = players.start + 1
             ELSE /\ handled'.calls = <<>>
                  /\ players' = players]_vars

\* a step of the run thread right after recv has timed out
LisAfterTimeout == lis_pc = "timeout" /\ lis_pc' # "timeout"
BotAfterTimeout == bot_pc = "timeout" /\ bot_pc' # "timeout"

\* C21: a receive timeout while connected is not a failure: in
\* TwitchListener.run and in TwitchBot.run the step after the timeout is back
\* at the loop with the same socket, no backoff sleep has begun, no connect()
\* is under way, and the backoff delays are what they were.
C21_TimeoutIsNotAFailure ==
    [][ (LisAfterTimeout =>
            /\ lis_pc' \in {"loop", "recv"}
            /\ UNCHANGED <<run_sock, sleep_left, run_backoff, self_backoff,
                           open_sockets>>)
      /\ (BotAfterTimeout =>
            /\ bot_pc' \in {"loop", "recv"}
            /\ UNCHANGED <<bot_socket, bot_connected, current_reconnect_delay,
                           open_sockets>>) ]_vars

\* the same for TwitchBot.run alone
C21_BotTimeoutIsNotAFailure ==
    [][BotAfterTimeout =>
          /\ bot_pc' \in {"loop", "recv"}
          /\ UNCHANGED <<bot_socket, bot_connected, current_reconnect_delay,
                         open_sockets>>]_vars

\* connect() returns False at line 158: the configuration is incomplete
BotConfigMissing == bot_pc = "config" /\ ~config_complete /\ bot_pc' # "config"

\* C22: when oauth_token, bot_username or twitch_channel is empty, connect()
\* of the bot fails on its own path (not the one of a network failure), has
\* sent no handshake line, leaves connected False and leaves no open socket
\* behind; run() then sleeps for the current delay and doubles it (capped).
C22_MissingConfigLeavesNothing ==
    /\ [][BotConfigMissing =>
             /\ bot_pc' = "sleep"
             /\ sent'.lines = <<>>
             /\ ~bot_connected'
             /\ bot_socket' \notin open_sockets']_vars
    /\ [][(bot_pc = "backoff" /\ bot_pc' # "backoff") =>
             current_reconnect_delay' =
                Min(2 * current_reconnect_delay, max_reconnect_delay)]_vars

\* the same without the socket: the open socket connect() leaves behind
C22_MissingConfigFailsApart ==
    /\ [][BotConfigMissing =>
             /\ bot_pc' = "sleep"
             /\ sent'.lines = <<>>
             /\ ~bot_connected']_vars
    /\ [][(bot_pc = "backoff" /\ bot_pc' # "backoff") =>
             current_reconnect_delay' =
                Min(2 * current_reconnect_delay, max_reconnect_delay)]_vars

\* the run thread takes the trigger table for a message (line 215), and
\* leaves the test of the connection settings (lines 152-156)
TakesTable == ~scan.on /\ scan'.on
TestsSettings == bot_pc = "config" /\ bot_pc' # "config"

\* C23: between the start of run() and its exit the bot uses the
\* configuration run() began with: the trigger table it matches a message
\* against and the connection settings it makes a handshake with are those of
\* the moment run() began, also when save_config of the window runs meanwhile.
C23_ConfigFixedDuringRun ==
    [][ (TakesTable => scan'.table = run_cfg.table)
      /\ (TestsSettings => ((bot_pc' = "pass") <=> run_cfg.complete)) ]_vars

\* the chat text of the message the loop over the trigger table is in
ScanText == ChatMessage(BotMessage)

\* C24: a trigger scan is never interleaved with a write to the table it
\* scans: the table taken at line 215 is the whole table the configuration
\* held then, no step changes it while the loop is in it (save_config
\* included), and what the message plays is what that one table yields.
C24_ScanSeesOneSnapshot ==
    [][ (TakesTable => (scan'.table = triggers /\ scan'.i = 0))
      /\ ((scan.on /\ scan'.on) => scan'.table = scan.table)
      /\ ((scan.on /\ ~scan'.on) =>
              \E existing \in SUBSET SoundFiles :
                 audio_threads' =
                    PlaySounds(audio_threads, ScanTriggers(scan.table, ScanText),
                               existing)) ]_vars

\* the loop is past the first row of the table it took, save_config has
\* replaced the table meanwhile, and the new table would play another sound
C24_Witness ==
    /\ scan.on /\ scan.i >= 1
    /\ save_pc = "idle"
    /\ triggers # scan.table
    /\ ScanTriggers(triggers, ScanText) # ScanTriggers(scan.table, ScanText)

(***************************************************************************)
(* Both programs on lines that hold PRIVMSG, well formed or not.           *)
(***************************************************************************)
\* "[:<sender>!<prefix> ]PRIVMSG[ #<channel>][ :]<text>" with each part
\* present, damaged or missing
ChatLikeLines ==
    {prefix \o <<"PRIVMSG">> \o channel \o delimiter \o text :
        prefix \in {<<":", "u", "!", "u", " ">>, <<":", "u", " ">>, <<>>},
        channel \in {<<" ", "#", "c">>, <<" ", "c">>, <<>>},
        delimiter \in {<<" ", ":">>, <<":">>, <<" ">>},
        text \in {<<"a">>, <<"x">>}}

\* a connected bot, or a connected listener, whose recv has just returned one
\* such line
ChatLikeInit ==
    /\ NoFrame
    /\ open_sockets = {1}
    /\ leaked = FALSE
    /\ created = 1
    /\ received = 1
    /\ sent = [sock |-> 1, lines |-> HandshakeLines]
    /\ stop_recv = FALSE
    /\ handled = Unhandled
    /\ \E line \in ChatLikeLines :
          \/ /\ NoListener
             /\ buf_socks = {}
             /\ bot_pc = "handle"
             /\ bot_running = TRUE
             /\ bot_connected = TRUE
             /\ bot_socket = 1
             /\ reconnect_delay = DefaultReconnectDelay
             /\ max_reconnect_delay = DefaultMaxReconnectDelay
             /\ current_reconnect_delay = DefaultReconnectDelay
             /\ bot_msgs = Split(CRLF, Decode(line \o CRLF))
             /\ bot_i = 0
             /\ bot_lost = FALSE
             /\ stop_pc = "idle"
             /\ stop_called = FALSE
             /\ config_complete = TRUE
             /\ triggers = DefaultTriggers
             /\ audio_initialized = TRUE
             /\ audio_threads = <<>>
             /\ audio_lock = FALSE
             /\ scan = NoScan
             /\ run_cfg = [complete |-> TRUE, table |-> DefaultTriggers]
             /\ save_pc = "idle"
             /\ gui_running = TRUE
             /\ orphans = 0
          \/ /\ NoBot
             /\ buf_socks = {1}
             /\ lis_pc = "lines"
             /\ lis_running = TRUE
             /\ self_backoff = 1
             /\ run_backoff = 1
             /\ run_sock = 1
             /\ conn_sock = 0
             /\ conn_from = "first"
             /\ buffer = Feed(<<>>, line \o CRLF)
             /\ sleep_left = 0
             /\ lis_fails = 0
             /\ players = NoPlayers
             /\ lstop_pc = "idle"
             /\ join_left = 0
             /\ stop_slept = FALSE
             /\ oauth_token_set = TRUE

SpecChatLike ==
    ChatLikeInit /\ [][BotHandleChat \/ BotNextMessage
                         \/ LisLineChat \/ LisLineSkip \/ LisLinesDone]_vars

\* a line of ChatLikeLines that lacks the ":<sender>!" prefix, the
\* "#<channel>" token or the " :" delimiter
Malformed(line) == \A text \in {<<"a">>, <<"x">>} : line # ChatPrefix \o text

\* handle_message of the bot returns from a malformed line; run() of the
\* listener takes a malformed line out of the buffer
BotOnMalformed ==
    /\ bot_pc = "handle" /\ bot_i < Len(bot_msgs)
    /\ BotMessage # <<>> /\ Malformed(BotMessage)
    /\ (bot_i' # bot_i \/ bot_pc' # bot_pc)
LisOnMalformed ==
    /\ lis_pc = "lines" /\ Contains(CRLF, buffer)
    /\ Malformed(NextLine)
    /\ buffer' = RestBuffer

\* C25: a line that holds PRIVMSG but lacks the ":<sender>!" prefix, the
\* "#<channel>" token or the " :" delimiter is handled like any other line,
\* without an exception: TwitchBot.handle_message and TwitchListener.run
\* stay at their loop, start no playback, call no observer, and leave the
\* connection and the backoff delays as they are.
C25_MalformedLineIsOther ==
    [][ (BotOnMalformed =>
            /\ bot_pc' = "handle"
            /\ UNCHANGED <<audio_threads, bot_connected, bot_socket,
                           current_reconnect_delay, open_sockets>>)
      /\ (LisOnMalformed =>
            /\ lis_pc' = "lines"
            /\ handled'.calls = <<>>
            /\ UNCHANGED <<players, run_sock, run_backoff, self_backoff,
                           open_sockets>>) ]_vars

\* the same for TwitchListener.run alone
C25_ListenerMalformedLineIsOther ==
    [][LisOnMalformed =>
          /\ lis_pc' = "lines"
          /\ handled'.calls = <<>>
          /\ UNCHANGED <<players, run_sock, run_backoff, self_backoff,
                         open_sockets>>]_vars

\* connect() of the listener creates a socket, line 102
LisOpensSocket == lis_pc = "c_create" /\ lis_pc' = "c_connect"

\* C26: whenever connect() of TwitchListener opens a socket, the socket that
\* run() held before has been closed, and the listener holds no more than
\* one open socket.
C26_OldSocketClosedFirst ==
    [][LisOpensSocket =>
          /\ run_sock \notin open_sockets
          /\ Cardinality(open_sockets') <= 1]_vars

\* C27: a TwitchListener started without an OAuth token, and not stopped,
\* stays connecting: its run thread is testing the token or inside connect()
\* or its retry sleep, and never ends.
C27_MissingTokenRetried ==
    (~oauth_token_set /\ lis_pc # "idle") => (lis_pc = "token" \/ LisConnecting)

\* stop() was called while run() was blocked in recv, and has returned
StoppedInRecv == lstop_pc = "idle" /\ stop_recv

\* C28: once stop() of a TwitchListener has returned, no step of that
\* listener starts a playback thread or calls on_trigger, whatever the server
\* sends.
C28_SilentAfterStop ==
    [][StoppedInRecv =>
          /\ players'.start <= players.start
          /\ LisChatStep => handled'.calls = <<>>]_vars

\* stop() was called while run() was blocked in recv or asleep before a
\* reconnect, and has returned
StopReturned == lstop_pc = "idle" /\ (stop_recv \/ stop_slept)

\* C30: once stop() has returned, in whatever state it left the run thread,
\* a call of start() spawns a new run thread.
C30_StartAfterStopSpawns == StopReturned => ENABLED (LisStart /\ lis_pc' = "token")

\* C29: whatever start_bot and stop_bot calls the window makes, at most one
\* run thread of a TwitchBot is alive: when the thread of the current bot
\* is alive, none of an earlier bot is.
C29_OneRunThread == (IF BotThreadAlive THEN 1 ELSE 0) + orphans <= 1

\* the playback threads inside the with-block of _play_sound_thread
InLockedSection ==
    {i \in 1..Len(audio_threads) : audio_threads[i].st \in {"play", "error"}}

\* C31: at most one playback thread of the AudioPlayer is inside the locked
\* section, and the lock is held exactly while one is: a playback that ends,
\* by playing to its end or by raising, leaves the lock free for the
\* playbacks that wait.
C31_OneSoundAtATime ==
    /\ Cardinality(InLockedSection) <= 1
    /\ audio_lock <=> InLockedSection # {}

\* a playback has raised and is in its except clause, still holding the
\* lock, while a playback started later waits for it
C31_Witness ==
    /\ audio_lock
    /\ \E i, j \in 1..Len(audio_threads) :
          i < j /\ audio_threads[i].st = "error" /\ audio_threads[j].st = "wait"

\* C32: in every state of the TwitchBot, with stop() running beside run(),
\* connected True means that self.socket is open and that PASS, NICK and
\* JOIN have been sent on it.
C32_ConnectedMeansOpenSocket ==
    bot_connected => (bot_socket \in open_sockets /\ ShookHands(bot_socket))

\* the same without the socket being open
C32_ConnectedMeansHandshake == bot_connected => ShookHands(bot_socket)

\* C33: the characters in the line buffer of TwitchListener.run, and so the
\* characters of every line it processes, were all received on one
\* connection: nothing left over from a lost connection is joined with
\* what a later connection delivers.
C33_BufferOfOneConnection == Cardinality(buf_socks) <= 1

\* C34: whenever no run thread of the TwitchListener is alive (none was
\* started, or run() has returned or been left by an exception), running is
\* False.
C34_DeadListenerNotRunning == ~ThreadAlive => ~lis_running


====
